---- MODULE Spec2Model ----
(***************************************************************************)
(* A model of fincantatem: the failure-context assembly pipeline           *)
(* (domain/workflows.py), the reference JAX plugin (lib/framework/jax) and *)
(* the prompt renderer.                                                    *)
(*                                                                         *)
(* Text is modelled as a sequence of tokens (strings): a file name, a      *)
(* function name, a dtype name or a representation is the sequence of its  *)
(* pieces, so that endswith, substring and slicing are computed on the     *)
(* sequence.  Python's None is the record None.                            *)
(***************************************************************************)
EXTENDS Integers, Sequences, FiniteSets, TLC

\* ------------------------------------------------------------------ bounds
\* The longest traceback (number of frames) the model walks.
MaxFrames == 3
\* The largest binding set handed to format_locals on its own.
MaxBindings == 3

\* ------------------------------------------------------------ text helpers
None == [tag |-> "None"]

\* s.endswith(suffix)
EndsWith(s, suffix) ==
    /\ Len(suffix) <= Len(s)
    /\ SubSeq(s, Len(s) - Len(suffix) + 1, Len(s)) = suffix

\* s.startswith(prefix)
StartsWith(s, prefix) ==
    /\ Len(prefix) <= Len(s)
    /\ SubSeq(s, 1, Len(prefix)) = prefix

\* needle in s
Contains(s, needle) ==
    \E i \in 1..(Len(s) - Len(needle) + 1) :
        SubSeq(s, i, i + Len(needle) - 1) = needle

\* str.lower() on one token
LowerTok(t) ==
    CASE t = "VMAP" -> "vmap"
      [] t = "Sub" -> "sub"
      [] t = "Key" -> "key"
      [] t = "Q" -> "q"
      [] t = "QUIT" -> "quit"
      [] t = "Save" -> "save"
      [] t = "Split" -> "split"
      [] t = "JIT" -> "jit"
      [] OTHER -> t

\* s.lower()
Lower(s) == [i \in 1..Len(s) |-> LowerTok(s[i])]

\* reversed(s)
Reversed(s) == [i \in 1..Len(s) |-> s[Len(s) + 1 - i]]

\* mutation of AllButLast: s[1:], the first element dropped instead of the last
AllButLastDropsFirst(s) == SubSeq(s, 2, Len(s))

\* s[:-1]
AllButLast(s) == SubSeq(s, 1, Len(s) - 1)

\* every sequence over S of length at most n
SeqUpTo(S, n) == UNION {[1..k -> S] : k \in 0..n}

\* ------------------------------------------------- values bound to locals
\* A Python object found in a frame's locals, by the attributes the code reads:
\* repr(value) as the sequence of its characters, hasattr(value, "shape") and hasattr(value, "dtype"),
\* str(value.dtype), value.shape, type(value).__module__, whether it is a
\* jax.core.Tracer (with its level, None when it has none) and what its
\* device()/devices() accessor does.
PyValue(r, has, dt, sh, mod, tr, lvl, dev) ==
    [repr |-> r, hasShapeDtype |-> has, dtype |-> dt, shape |-> sh,
     module |-> mod, is_tracer |-> tr, level |-> lvl, dev |-> dev]

NoDev == [kind |-> "none", result |-> "none"]
VInt == PyValue(<<"1">>, FALSE, <<>>, <<>>, <<"builtins">>, FALSE, None, NoDev)
VTuple == PyValue(<<"(", ")">>, FALSE, <<>>, <<>>, <<"builtins">>, FALSE, None, NoDev)
VNumpy == PyValue(<<"a", "r", "r", "a", "y", "(", "[", "1", ".", "]", ")">>, TRUE, <<"float32">>, <<1>>,
                  <<"numpy">>, FALSE, None, NoDev)
VJaxArray == PyValue(<<"A", "r", "r", "a", "y", "(", "[", "1", ".", "]", ")">>, TRUE, <<"float32">>, <<3, 4>>,
                     <<"jax", "lib">>, FALSE, None,
                     [kind |-> "device()", result |-> "cpu:0"])
VJaxKey == PyValue(<<"A", "r", "r", "a", "y", "(", "[", "0", " ", "4", "2", "]", ")">>, TRUE, <<"uint32">>, <<2>>,
                   <<"jax", "lib">>, FALSE, None,
                   [kind |-> "devices()", result |-> "{cpu:0}"])

Binding(n, v) == [name |-> n, value |-> v]

\* ------------------------------------------------------- traceback frames
\* A traceback entry, by what fetch_source_code_bundle reads from it:
\* frame.f_code.co_name, frame.f_code.co_filename, tb.tb_lineno, frame.f_locals
\* (a dict, kept in insertion order as a sequence of bindings).
Frame(fn, file, line, locals) ==
    [function_name |-> fn, filename |-> file, lineno |-> line, f_locals |-> locals]

CoreInitPath == <<"/", "site-packages", "/", "fincantatem", "/", "__init__.py">>
IPythonPath ==
    <<"/", "site-packages", "/", "IPython", "/", "core", "/", "interactiveshell.py">>
UserInitPath == <<"/", "app", "/", "mypkg", "/", "__init__.py">>
UserFilePath == <<"/", "app", "/", "train.py">>

\* the decorator's own frame: finite.decorate.wrapper in fincantatem/__init__.py
CoreWrapperFrame ==
    Frame(<<"wrapper">>, CoreInitPath, 58, <<Binding(<<"args">>, VTuple)>>)
\* a frame of the embedding IPython shell
IPythonFrame == Frame(<<"run_code">>, IPythonPath, 3577, <<>>)
\* user code: a decorator's inner function named wrapper, in a package __init__.py
UserInitWrapperFrame ==
    Frame(<<"wrapper">>, UserInitPath, 12, <<Binding(<<"n">>, VInt)>>)
\* user code: a function named wrapper outside any __init__.py
UserFileWrapperFrame ==
    Frame(<<"wrapper">>, UserFilePath, 7, <<Binding(<<"a">>, VNumpy)>>)
\* user code: a vmapped step of a package __init__.py, with a PRNG key and an
\* array in its locals
UserJaxFrame ==
    Frame(<<"VMAP", "_", "step">>, UserInitPath, 21,
          <<Binding(<<"Sub", "key">>, VJaxKey), Binding(<<"x">>, VJaxArray)>>)

FrameCatalogue ==
    {CoreWrapperFrame, IPythonFrame, UserInitWrapperFrame, UserFileWrapperFrame,
     UserJaxFrame}

\* The frames the specification calls infrastructure: the core's own wrapper
\* frame and the frames of the embedding IPython shell.
IsInfrastructureFrame(f) == f \in {CoreWrapperFrame, IPythonFrame}

\* --------------------------------------------------- optional values
Some(v) == [tag |-> "Some", v |-> v]
IsNone(x) == x.tag = "None"

\* Optional[Dict[str, Any]]: None, or a dict as the sequence of its bindings
Dict(items) == [tag |-> "dict", items |-> items]
\* Python truthiness of an Optional[Dict]: None and {} are falsy
Truthy(local_vars) == ~IsNone(local_vars) /\ Len(local_vars.items) > 0

\* ------------------------------------------- lib/framework/jax/helpers.py
\* the device label extract_array_metadata computes
DeviceStr(value) ==
    IF value.dev.kind = "device()"
    THEN IF value.dev.result = "raise" THEN "unavailable" ELSE value.dev.result
    ELSE IF value.dev.kind = "devices()"
         THEN IF value.dev.result = "raise" THEN "unavailable"
              ELSE IF value.dev.result = "empty" THEN "unknown"
              ELSE value.dev.result
         ELSE "unknown"

extract_array_metadata(name, value) ==
    IF ~value.hasShapeDtype THEN None
    ELSE IF ~StartsWith(value.module, <<"jax">>) THEN None
    ELSE [tag |-> "JaxArrayMetadata", name |-> name, shape |-> value.shape,
          dtype |-> value.dtype, device |-> DeviceStr(value),
          is_tracer |-> value.is_tracer,
          tracer_level |-> IF value.is_tracer THEN value.level ELSE None]

\* mutation of extract_prng_metadata: a value is a key only under a name that
\* says so
extract_prng_metadataByName(name, value) ==
    IF ~value.hasShapeDtype \/ ~Contains(Lower(name), <<"key">>) THEN None
    ELSE [tag |-> "PRNGKeyMetadata", name |-> name,
          key_type |-> IF Contains(Lower(name), <<"sub">>) THEN "subkey" ELSE "key",
          was_split |-> \/ Len(value.shape) > 1
                        \/ Contains(Lower(name), <<"split">>)]

extract_prng_metadata(name, value) ==
    IF ~value.hasShapeDtype THEN None
    ELSE LET dtype_str == value.dtype
             is_prng_key ==
                 \/ Contains(Lower(dtype_str), <<"key">>)
                 \/ dtype_str = <<"uint32">> /\ value.shape = <<2>>
                 \/ /\ dtype_str = <<"uint32">>
                    /\ Len(value.shape) = 2
                    /\ value.shape[Len(value.shape)] = 2
             name_lower == Lower(name)
         IN IF ~is_prng_key THEN None
            ELSE [tag |-> "PRNGKeyMetadata", name |-> name,
                  key_type |-> IF Contains(name_lower, <<"sub">>)
                               THEN "subkey" ELSE "key",
                  was_split |-> \/ Len(value.shape) > 1
                                \/ Contains(name_lower, <<"split">>)]

\* mutation of detect_transformation: the compile markers are tested first
detect_transformationCompileFirst(function_name) ==
    LET fn_lower == Lower(function_name)
        has(t) == Contains(fn_lower, <<t>>)
    IN IF has("jit") \/ has("compiled") \/ has("xla") THEN Some("compile")
       ELSE IF has("vmap") \/ has("batched") THEN Some("vectorize")
       ELSE IF has("pmap") \/ has("parallel") THEN Some("parallelize")
       ELSE IF has("grad") \/ has("vjp") \/ has("jvp") THEN Some("differentiate")
       ELSE None

detect_transformation(function_name) ==
    LET fn_lower == Lower(function_name)
        has(t) == Contains(fn_lower, <<t>>)
    IN IF has("vmap") \/ has("batched") THEN Some("vectorize")
       ELSE IF has("pmap") \/ has("parallel") THEN Some("parallelize")
       ELSE IF has("jit") \/ has("compiled") \/ has("xla") THEN Some("compile")
       ELSE IF has("grad") \/ has("vjp") \/ has("jvp") THEN Some("differentiate")
       ELSE None

\* ----------------------------------------- lib/framework/jax/framework.py
\* the per-bundle body of JaxFramework.extract_context's loop; tracing is what
\* is_tracing() answers during the call
JaxFrameContextOf(bundle, tracing) ==
    LET considered ==
            IF Truthy(bundle.local_vars)
            THEN SelectSeq(bundle.local_vars.items,
                           LAMBDA b : ~StartsWith(b.name, <<"__">>))
            ELSE <<>>
        isKey(b) == ~IsNone(extract_prng_metadata(b.name, b.value))
        keyBindings == SelectSeq(considered, isKey)
        arrayBindings ==
            SelectSeq(considered,
                      LAMBDA b : /\ ~isKey(b)
                                 /\ ~IsNone(extract_array_metadata(b.name, b.value)))
    IN [arrays |-> [i \in 1..Len(arrayBindings) |->
                      extract_array_metadata(arrayBindings[i].name,
                                             arrayBindings[i].value)],
        prng_keys |-> [i \in 1..Len(keyBindings) |->
                         extract_prng_metadata(keyBindings[i].name,
                                               keyBindings[i].value)],
        transformation_context |-> detect_transformation(bundle.function_name),
        is_tracing |-> tracing]

JaxVersion == <<"0", ".", "4", ".", "30">>

\* JaxFramework.extract_context: always a JaxContext, one frame context per bundle
JaxExtractContext(source_code_bundles, tracing) ==
    [tag |-> "JaxContext", name |-> "jax", version |-> JaxVersion,
     frame_contexts |-> [i \in 1..Len(source_code_bundles) |->
                           JaxFrameContextOf(source_code_bundles[i], tracing)],
     relevant_documentation |-> <<>>, device_count |-> 1,
     default_backend |-> "cpu"]

\* ------------------------------------------- lib/framework/jax/types.py
\* mutation of JaxFrameContextString: a frame that is being traced is rendered
\* even when it has nothing else
JaxFrameContextStringWhenTracing(ctx, index) ==
    IF index < 0 \/ index >= Len(ctx.frame_contexts) THEN None
    ELSE LET fc == ctx.frame_contexts[index + 1]
         IN IF /\ Len(fc.arrays) = 0
               /\ Len(fc.prng_keys) = 0
               /\ IsNone(fc.transformation_context)
               /\ ~fc.is_tracing
            THEN None
            ELSE [tag |-> "jax_frame_context", version |-> ctx.version,
                  default_backend |-> ctx.default_backend,
                  is_tracing |-> fc.is_tracing, arrays |-> fc.arrays,
                  prng_keys |-> fc.prng_keys,
                  transformation_context |-> fc.transformation_context]

\* JaxContext.frame_context_string(index), index counted from 0
JaxFrameContextString(ctx, index) ==
    IF index < 0 \/ index >= Len(ctx.frame_contexts) THEN None
    ELSE LET fc == ctx.frame_contexts[index + 1]
         IN IF /\ Len(fc.arrays) = 0
               /\ Len(fc.prng_keys) = 0
               /\ IsNone(fc.transformation_context)
            THEN None
            ELSE [tag |-> "jax_frame_context", version |-> ctx.version,
                  default_backend |-> ctx.default_backend,
                  is_tracing |-> fc.is_tracing, arrays |-> fc.arrays,
                  prng_keys |-> fc.prng_keys,
                  transformation_context |-> fc.transformation_context]

\* ------------------------------------------------- domain/framework.py
\* A plugin of the registry is the reference plugin ("jax") or another
\* implementation of the Framework protocol ("other"), whose extract_context
\* answers None or a context that renders, per frame, the frame's function
\* name.
PluginKinds == {"jax", "other"}

\* The registries the model hands to build_exception_context: what core_loop
\* builds (no plugin, or the reference plugin alone) and every longer registry
\* of two plugins.
Registries ==
    {<<>>, <<"jax">>, <<"other">>, <<"jax", "other">>, <<"other", "jax">>,
     <<"jax", "jax">>, <<"other", "other">>}

OtherExtractContext(source_code_bundles) ==
    [tag |-> "OtherContext", name |-> "other",
     frame_names |-> [i \in 1..Len(source_code_bundles) |->
                        source_code_bundles[i].function_name]]

OtherFrameContextString(ctx, index) ==
    IF index < 0 \/ index >= Len(ctx.frame_names) THEN None
    ELSE [tag |-> "other_frame_context", fn |-> ctx.frame_names[index + 1]]

\* StringableContext.frame_context_string, dispatched on the context's class
frame_context_string(ctx, index) ==
    IF ctx.tag = "JaxContext" THEN JaxFrameContextString(ctx, index)
    ELSE OtherFrameContextString(ctx, index)

\* an exception of class type, raised "from" cause (None: no cause)
Raised(type, cause) == [tag |-> "Exception", type |-> type, cause |-> cause]

\* ------------------------------------------------------------------ state
VARIABLES
    tb,                \* the failure's traceback: its frames, oldest caller first
    frameworks,        \* the plugin registry handed to build_exception_context
    tracing,           \* what JAX's is_tracing() answers while the failure is reported
                       \* (FALSE when no plugin asks)
    tb_pos,            \* fetch_source_code_bundle: the entry tb points at
    bundle,            \* fetch_source_code_bundle: the list it accumulates
    fs_calls,          \* the FileSystem calls of the walk's latest fetch, in order
    pc,                \* where the pipeline stands
    error,             \* the exception that ended the pipeline, or None
    immediate,         \* source_code_bundles[-1], once evaluated
    outer,             \* source_code_bundles[:-1], once evaluated
    fw_acc,            \* the framework_context comprehension's list so far
    extract_calls,     \* every extract_context call: plugin position, argument, answer
    context,           \* the ExceptionContext returned, or None
    prompt_args,       \* build_prompt's template_identifier, or None before the call
    prompt,            \* what build_prompt returned, or None
    fl_in,             \* format_locals on its own: the argument
    fl_out             \* format_locals on its own: the result, or None

pipelineVars ==
    <<tb, frameworks, tracing, tb_pos, bundle, fs_calls, pc, error, immediate, outer,
      fw_acc, extract_calls, context, prompt_args, prompt>>
localsVars == <<fl_in, fl_out>>

\* the inference client (lib/ports/inference.py): one invocation of call or
\* call_stream against a scripted transport
VARIABLES
    operation,         \* the operation invoked: "call" or "call_stream" ("none": idle)
    settings,          \* the InferenceSettings handed over
    transport,         \* what urlopen and the response will do for this invocation
    ipc,               \* where the invocation stands
    line_no,           \* call_stream: transport lines the for loop has taken so far
    yielded,           \* call_stream: the fragments handed to the consumer, in order
    response,          \* call: the Response returned, or None
    raised,            \* the exception that left the operation, or None
    requests,          \* urlopen calls made by this invocation
    opened,            \* responses urlopen handed over (open connections)
    closed,            \* close() calls made on those responses
    pulls              \* call_stream: next() calls the consumer made on the generator

inferenceVars ==
    <<operation, settings, transport, ipc, line_no, yielded, response, raised, requests,
      opened, closed, pulls>>

\* the chat session (lib/ports/chat.py)
VARIABLES
    messages,          \* Chat.messages, the history
    exception_context, \* Chat.exception_context, or None
    chat_pc,           \* where the session stands ("none": no session)
    user_input,        \* what interface.prompt handed to the ask_user under way or
                       \* just over; Nothing since the last add_response
    returned,          \* how the latest ask_user ended: what it returned or the
                       \* exception that left it; Nothing while it runs
    notice,            \* the latest interface.display made by ask_user, or None
    export             \* the latest file _handle_save wrote, or None

chatVars == <<messages, exception_context, chat_pc, user_input, returned, notice, export>>
portsVars == <<inferenceVars, chatVars>>

\* the reference plugin on its own (lib/framework/jax) and one reporting cycle
\* (core.py)
VARIABLES
    ec_in,             \* extract_context on its own: the bundle handed over, or None
    ec_out,            \* extract_context on its own: the JaxContext answered, or None
    core_pc,           \* core_loop: the statement it has reached ("none": no cycle)
    excepthook         \* the assignments made to sys.excepthook, in order

pluginVars == <<ec_in, ec_out>>
coreVars == <<core_pc, excepthook>>
vars == <<pipelineVars, localsVars, portsVars, pluginVars, coreVars>>

\* extract_context is not being run on its own
PluginIdle == ec_in = None /\ ec_out = None
\* no reporting cycle is being run
CoreIdle == core_pc = "none" /\ excepthook = <<>>

\* no inference operation is in progress
InferenceIdle ==
    /\ operation = "none"
    /\ settings = None
    /\ transport = None
    /\ ipc = "idle"
    /\ line_no = 0
    /\ yielded = <<>>
    /\ response = None
    /\ raised = None
    /\ requests = 0
    /\ opened = 0
    /\ closed = 0
    /\ pulls = 0

\* no input read yet, nothing returned yet
Nothing == [tag |-> "nothing"]

\* no chat session exists
ChatIdle ==
    /\ messages = <<>>
    /\ exception_context = None
    /\ chat_pc = "none"
    /\ user_input = Nothing
    /\ returned = Nothing
    /\ notice = None
    /\ export = None

\* -------------------------------------------------------- the file system
\* lib/ports/fs.py is an external collaborator: each call answers text or
\* raises.  What it answers is identified by where it was read from.
PathOps == <<"fetch_source_code_from_path", "fetch_source_code_snippet_from_path">>
FrameOps == <<"fetch_source_code_from_frame", "fetch_source_code_snippet_from_frame">>

FsCall(pos, op, ok) == [frame |-> pos, op |-> op, ok |-> ok]

\* the calls of one try block whose k-th call raises (k = 0: none raises)
TryCalls(pos, ops, k) ==
    [i \in 1..(IF k = 0 THEN Len(ops) ELSE k) |-> FsCall(pos, ops[i], i # k)]

SourceText(via, frame) == [via |-> via, file |-> frame.filename]
SnippetText(via, frame) ==
    [via |-> via, file |-> frame.filename, around |-> frame.lineno]
\* the first line of the frame's source, as fetch_source_code_from_frame reports it
FrameCodeStart(frame) == frame.lineno - 1

\* ----------------------------------------------------- domain/workflows.py
SNIPPET_BEFORE == 3

SourceCodeBundle(frame, via) ==
    [path |-> frame.filename,
     code |-> SourceText(via, frame),
     snippet |-> SnippetText(via, frame),
     line_number_offset |-> frame.lineno,
     code_start_line_number_offset |->
         IF via = "path" THEN 1 ELSE FrameCodeStart(frame),
     function_name |-> frame.function_name,
     local_vars |-> Dict(frame.f_locals)]

is_wrapper_frame(frame) ==
    /\ frame.function_name = <<"wrapper">>
    /\ EndsWith(frame.filename, <<"__init__.py">>)

is_ipython_frame(frame) ==
    Contains(frame.filename,
             <<"/", "IPython", "/", "core", "/", "interactiveshell.py">>)

\* the frames the walk passes over
Skipped(frame) == is_wrapper_frame(frame) \/ is_ipython_frame(frame)

Walking == pc = "fetch" /\ tb_pos <= Len(tb)

afterWalkVars ==
    <<immediate, outer, fw_acc, extract_calls, context, prompt_args, prompt>>

\* lines 47-49: an infrastructure frame is passed over
SkipFrame ==
    /\ Walking
    /\ Skipped(tb[tb_pos])
    /\ tb_pos' = tb_pos + 1
    /\ UNCHANGED <<tb, frameworks, tracing, bundle, fs_calls, pc, error, afterWalkVars,
                   localsVars, pluginVars, coreVars, portsVars>>

\* lines 51-59, 69-81: both path-based calls answer
FetchFromPath ==
    /\ Walking
    /\ ~Skipped(tb[tb_pos])
    /\ fs_calls' = TryCalls(tb_pos, PathOps, 0)
    /\ bundle' = Append(bundle, SourceCodeBundle(tb[tb_pos], "path"))
    /\ tb_pos' = tb_pos + 1
    /\ UNCHANGED <<tb, frameworks, tracing, pc, error, afterWalkVars, localsVars, pluginVars, coreVars, portsVars>>

\* lines 51-63, 69-81: a path-based call raises and both frame-based calls answer
FetchFromFrame ==
    /\ Walking
    /\ ~Skipped(tb[tb_pos])
    /\ \E k \in 1..Len(PathOps) :
          fs_calls' = TryCalls(tb_pos, PathOps, k) \o TryCalls(tb_pos, FrameOps, 0)
    /\ bundle' = Append(bundle, SourceCodeBundle(tb[tb_pos], "frame"))
    /\ tb_pos' = tb_pos + 1
    /\ UNCHANGED <<tb, frameworks, tracing, pc, error, afterWalkVars, localsVars, pluginVars, coreVars, portsVars>>

\* mutation of FetchFails: the fallback's failure is swallowed and the walk
\* goes on with the next frame
FetchFailsSwallowed ==
    /\ Walking
    /\ ~Skipped(tb[tb_pos])
    /\ \E k \in 1..Len(PathOps), j \in 1..Len(FrameOps) :
          fs_calls' = TryCalls(tb_pos, PathOps, k) \o TryCalls(tb_pos, FrameOps, j)
    /\ tb_pos' = tb_pos + 1
    /\ UNCHANGED <<tb, frameworks, tracing, bundle, pc, error, afterWalkVars,
                   localsVars, pluginVars, coreVars, portsVars>>

\* lines 51-67: a path-based call raises, then a frame-based call raises
FetchFails ==
    /\ Walking
    /\ ~Skipped(tb[tb_pos])
    /\ \E k \in 1..Len(PathOps), j \in 1..Len(FrameOps) :
          /\ fs_calls' = TryCalls(tb_pos, PathOps, k) \o TryCalls(tb_pos, FrameOps, j)
          /\ error' = Raised("FileSystemAccessError",
                              FsCall(tb_pos, FrameOps[j], FALSE))
    /\ pc' = "raised"
    /\ UNCHANGED <<tb, frameworks, tracing, tb_pos, bundle, afterWalkVars, localsVars, pluginVars, coreVars, portsVars>>

\* lines 83, 117, 127-128: the walk is over; the list is returned and
\* partitioned.  source_code_bundles[-1] of an empty list raises IndexError.
Partition ==
    /\ pc = "fetch"
    /\ tb_pos > Len(tb)
    /\ IF Len(bundle) = 0
       THEN /\ error' = Raised("IndexError", None)
            /\ pc' = "raised"
            /\ UNCHANGED <<immediate, outer>>
       ELSE /\ immediate' = bundle[Len(bundle)]
            /\ outer' = AllButLast(bundle)
            /\ pc' = "plugins"
            /\ UNCHANGED error
    /\ UNCHANGED <<tb, frameworks, tracing, tb_pos, bundle, fs_calls, fw_acc,
                   extract_calls, context, prompt_args, prompt, localsVars, pluginVars, coreVars, portsVars>>

\* what a plugin of the given kind may answer to extract_context(bundles)
ExtractResults(kind, bundles) ==
    IF kind = "jax"
    THEN {JaxExtractContext(bundles, tracing)}
    ELSE {None, OtherExtractContext(bundles)}

\* mutation of KeepContext: the filter is missing and None is kept too
KeepContextUnfiltered(acc, ctx) == Append(acc, ctx)

\* the comprehension's filter: ctx is kept if it is not None
KeepContext(acc, ctx) == IF IsNone(ctx) THEN acc ELSE Append(acc, ctx)

\* the plugin the comprehension calls next, counted from 1
NextPlugin == Len(extract_calls) + 1

\* lines 129-133: one turn of the framework_context comprehension
ExtractContext ==
    /\ pc = "plugins"
    /\ NextPlugin <= Len(frameworks)
    /\ \E ctx \in ExtractResults(frameworks[NextPlugin], bundle) :
          /\ fw_acc' = KeepContext(fw_acc, ctx)
          /\ extract_calls' = Append(extract_calls,
                                     [plugin |-> NextPlugin, bundles |-> bundle,
                                      result |-> ctx])
    /\ UNCHANGED <<tb, frameworks, tracing, tb_pos, bundle, fs_calls, pc, error,
                   immediate, outer, context, prompt_args, prompt, localsVars, pluginVars, coreVars, portsVars>>

\* lines 119-134: the ExceptionContext is constructed and returned
ReturnContext ==
    /\ pc = "plugins"
    /\ NextPlugin > Len(frameworks)
    /\ context' = [tag |-> "ExceptionContext",
                   immediate_source_code_bundle |-> immediate,
                   source_code_bundles |-> outer,
                   framework_context |-> fw_acc]
    /\ pc' = "context"
    /\ UNCHANGED <<tb, frameworks, tracing, tb_pos, bundle, fs_calls, error, immediate,
                   outer, fw_acc, extract_calls, prompt_args, prompt, localsVars, pluginVars, coreVars, portsVars>>

\* ------------------------------------------------------------ build_prompt
\* the longest representation format_locals renders whole (line 185)
ReprLimit == 200

\* the names PROMPT_TEMPLATES registers (domain/constants.py)
PROMPT_TEMPLATES == {"default"}

\* mutation of value_str: a representation of exactly 200 characters is cut too
value_strCutsAtLimit(value) ==
    IF Len(value.repr) >= ReprLimit
    THEN SubSeq(value.repr, 1, ReprLimit) \o <<".", ".", ".">>
    ELSE value.repr

\* lines 184-186: repr(value), cut to its first 200 characters plus "..."
value_str(value) ==
    IF Len(value.repr) > ReprLimit
    THEN SubSeq(value.repr, 1, ReprLimit) \o <<".", ".", ".">>
    ELSE value.repr

\* line 187: f"  {name} = {value_str}"
LocalsLine(b) == [indent |-> "  ", name |-> b.name, eq |-> " = ",
                  value_str |-> value_str(b.value)]

\* lines 177-189: the lines format_locals joins with "\n"
format_locals(local_vars) ==
    IF ~Truthy(local_vars)
    THEN <<"No local variables captured">>
    ELSE [i \in 1..Len(local_vars.items) |-> LocalsLine(local_vars.items[i])]

\* lines 143-158: the header and the numbered block; the line marked ">>> "
\* is the one numbered line_number_offset
RenderCodeBlock(b, start_line_number_offset, code) ==
    [path |-> b.path, line |-> b.line_number_offset, fn |-> b.function_name,
     start |-> start_line_number_offset, code |-> code]

\* lines 160-168
RenderSnippet(b) ==
    LET snippet_start ==
            IF b.code_start_line_number_offset # 1
            THEN b.code_start_line_number_offset
            ELSE IF b.line_number_offset - SNIPPET_BEFORE > 1
                 THEN b.line_number_offset - SNIPPET_BEFORE ELSE 1
    IN RenderCodeBlock(b, snippet_start, b.snippet)

\* lines 170-175
RenderFullSource(b) == RenderCodeBlock(b, b.code_start_line_number_offset, b.code)

\* lines 192-199: the non-empty frame strings of the contexts, in their order
\* (the empty sequence is the empty string)
get_framework_info_for_frame(ctx, frame_index) ==
    LET strs == [i \in 1..Len(ctx.framework_context) |->
                   frame_context_string(ctx.framework_context[i], frame_index)]
    IN SelectSeq(strs, LAMBDA x : ~IsNone(x))

\* mutation of original_frame_index: the display index is used as it is
original_frame_indexUnreversed(ctx, display_index) == display_index

\* line 204
original_frame_index(ctx, display_index) ==
    Len(ctx.source_code_bundles) - 1 - display_index

\* lines 202-212: CALL_STACK_CONTEXT_TEMPLATE filled in for one outer frame
render_call_stack_frame(ctx, display_index, b, snippets) ==
    [tag |-> "frame", i |-> display_index, function_name |-> b.function_name,
     path |-> b.path,
     code |-> IF snippets THEN RenderSnippet(b) ELSE RenderFullSource(b),
     local_vars |-> format_locals(b.local_vars),
     framework_info |->
         get_framework_info_for_frame(ctx, original_frame_index(ctx, display_index))]

\* line 216
immediate_frame_index(ctx) == Len(ctx.source_code_bundles)

\* lines 228-239: IMMEDIATE_TEMPLATE filled in
RenderImmediate(ctx, snippets) ==
    LET b == ctx.immediate_source_code_bundle
    IN [tag |-> "immediate", function_name |-> b.function_name, path |-> b.path,
        line_number |-> b.line_number_offset,
        code |-> IF snippets THEN RenderSnippet(b) ELSE RenderFullSource(b),
        local_vars |-> format_locals(b.local_vars),
        framework_info |->
            get_framework_info_for_frame(ctx, immediate_frame_index(ctx))]

\* lines 243-248: the rendered frames that "\n".join puts together, for
\* enumerate(reversed(context.source_code_bundles))
CallStackFrames(ctx, snippets) ==
    LET rev == Reversed(ctx.source_code_bundles)
    IN [k \in 1..Len(rev) |-> render_call_stack_frame(ctx, k - 1, rev[k], snippets)]

\* mutation of CallStackSection: the block is rendered around no frame too
CallStackSectionAlways(call_stack_frames) ==
    [tag |-> "call_stack_context", frames |-> call_stack_frames]

\* lines 249-254: a rendered frame is never the empty string (the template has
\* text of its own), so the joined string is empty exactly when no frame is
\* rendered
CallStackSection(call_stack_frames) ==
    IF Len(call_stack_frames) > 0
    THEN [tag |-> "call_stack_context", frames |-> call_stack_frames]
    ELSE [tag |-> "empty"]

\* lines 218-257: the template is looked up first (KeyError when it is not
\* registered), then the values are rendered into it
BuildPromptResult(ctx, template_identifier, snippets) ==
    [tag |-> "Prompt", template |-> template_identifier, snippets |-> snippets,
     immediate |-> RenderImmediate(ctx, snippets),
     call_stack_section |-> CallStackSection(CallStackFrames(ctx, snippets))]

TemplateIdentifiers == {"default", "verbose"}

BuildPrompt ==
    /\ pc = "context"
    /\ \E template_identifier \in TemplateIdentifiers, snippets \in BOOLEAN :
          /\ prompt_args' = Some(template_identifier)
          /\ IF template_identifier \in PROMPT_TEMPLATES
             THEN /\ prompt' = BuildPromptResult(context, template_identifier, snippets)
                  /\ pc' = "prompted"
                  /\ UNCHANGED error
             ELSE /\ error' = Raised("KeyError", None)
                  /\ pc' = "raised"
                  /\ UNCHANGED prompt
    /\ UNCHANGED <<tb, frameworks, tracing, tb_pos, bundle, fs_calls, immediate, outer,
                   fw_acc, extract_calls, context, localsVars, pluginVars, coreVars, portsVars>>

\* ------------------------------------------------------- the pipeline
Init ==
    /\ tb \in SeqUpTo(FrameCatalogue, MaxFrames)
    /\ frameworks \in Registries
    /\ tracing \in (IF \E i \in 1..Len(frameworks) : frameworks[i] = "jax"
                    THEN BOOLEAN ELSE {FALSE})
    /\ tb_pos = 1
    /\ bundle = <<>>
    /\ fs_calls = <<>>
    /\ pc = "fetch"
    /\ error = None
    /\ immediate = None
    /\ outer = <<>>
    /\ fw_acc = <<>>
    /\ extract_calls = <<>>
    /\ context = None
    /\ prompt_args = None
    /\ prompt = None
    /\ fl_in = None
    /\ fl_out = None
    /\ InferenceIdle
    /\ ChatIdle
    /\ PluginIdle
    /\ CoreIdle

\* ------------------------------------------------ format_locals on its own
FormatLocalsNames == <<<<"x">>, <<"y">>, <<"z">>, <<"w">>>>
CharAt(i) == <<"a", "b", "c", "d", "e", "f", "g">>[(i % 7) + 1]
\* a value whose representation has n characters
ValueOfReprLen(n) ==
    PyValue([i \in 1..n |-> CharAt(i)], FALSE, <<>>, <<>>, <<"builtins">>, FALSE,
            None, NoDev)
\* representation lengths around the limit
ReprLens == {0, 1, ReprLimit - 1, ReprLimit, ReprLimit + 1, ReprLimit + 50}

\* dicts of k bindings: distinct names (the first k), any of the values
DictsOfSize(k) ==
    {Dict([i \in 1..k |-> Binding(FormatLocalsNames[i], ValueOfReprLen(lens[i]))]) :
        lens \in [1..k -> ReprLens]}

FormatLocalsInputs == {None} \cup UNION {DictsOfSize(k) : k \in 0..MaxBindings}

InitLocals ==
    /\ tb = <<>>
    /\ frameworks = <<>>
    /\ tracing = FALSE
    /\ tb_pos = 1
    /\ bundle = <<>>
    /\ fs_calls = <<>>
    /\ pc = "format_locals"
    /\ error = None
    /\ immediate = None
    /\ outer = <<>>
    /\ fw_acc = <<>>
    /\ extract_calls = <<>>
    /\ context = None
    /\ prompt_args = None
    /\ prompt = None
    /\ fl_in \in FormatLocalsInputs
    /\ fl_out = None
    /\ InferenceIdle
    /\ ChatIdle
    /\ PluginIdle
    /\ CoreIdle

FormatLocals ==
    /\ pc = "format_locals"
    /\ IsNone(fl_out)
    /\ fl_out' = Some(format_locals(fl_in))
    /\ UNCHANGED <<pipelineVars, fl_in, portsVars, pluginVars, coreVars>>

NextLocals == FormatLocals

SpecLocals == InitLocals /\ [][NextLocals]_vars

Next ==
    \/ SkipFrame
    \/ FetchFromPath
    \/ FetchFromFrame
    \/ FetchFails
    \/ Partition
    \/ ExtractContext
    \/ ReturnContext
    \/ BuildPrompt

Spec == Init /\ [][Next]_vars

\* ------------------------------------------------- lib/ports/inference.py
\* The longest scripted stream (number of transport lines).
MaxLines == 3

\* What an expression evaluates to: a value, or an exception of some class.
Ok(v) == [tag |-> "ok", v |-> v]
Err(type) == [tag |-> "raise", type |-> type]

\* JSON values as json.loads builds them (null is Python's None); a string is
\* the sequence of its characters, an object the sequence of its members.
\* An object's members are [key |-> k, value |-> v]; a number is
\* [tag |-> "number", n |-> n].
JStr(s) == [tag |-> "string", s |-> s]
JArr(items) == [tag |-> "array", items |-> items]
JObj(items) == [tag |-> "object", items |-> items]

\* k in d, for a dict d
HasKey(d, k) == \E i \in 1..Len(d.items) : d.items[i].key = k
\* d.get(k, default) for a dict d
DictGet(d, k, default) ==
    IF HasKey(d, k)
    THEN d.items[CHOOSE i \in 1..Len(d.items) : d.items[i].key = k].value
    ELSE default

\* bool(v), as the `if content:` test takes it
JTruthy(v) ==
    CASE v.tag = "None" -> FALSE
      [] v.tag = "string" -> v.s # <<>>
      [] v.tag = "number" -> v.n # 0
      [] v.tag = "array" -> v.items # <<>>
      [] v.tag = "object" -> v.items # <<>>

\* the keys of a get_in path: a member name or a list position
Name(k) == [tag |-> "name", k |-> k]
Index(i) == [tag |-> "index", i |-> i]

\* operator.getitem(coll, key)
GetItem(coll, key) ==
    CASE coll.tag = "object" ->
            IF key.tag = "name" /\ HasKey(coll, key.k)
            THEN Ok(DictGet(coll, key.k, None)) ELSE Err("KeyError")
      [] coll.tag = "array" ->
            IF key.tag # "index" THEN Err("TypeError")
            ELSE IF key.i < Len(coll.items) THEN Ok(coll.items[key.i + 1])
            ELSE Err("IndexError")
      [] coll.tag = "string" ->
            IF key.tag # "index" THEN Err("TypeError")
            ELSE IF key.i < Len(coll.s) THEN Ok(JStr(<<coll.s[key.i + 1]>>))
            ELSE Err("IndexError")
      [] OTHER -> Err("TypeError")

\* get_in(keys, coll): reduce(operator.getitem, keys, coll), where KeyError,
\* IndexError and TypeError become the default, None
RECURSIVE get_in(_, _)
get_in(keys, coll) ==
    IF keys = <<>> THEN coll
    ELSE LET r == GetItem(coll, Head(keys))
         IN IF r.tag = "raise" THEN None ELSE get_in(Tail(keys), r.v)

\* Texts on the wire: the serialisation of a JSON value, or a text of another
\* kind: "garbage" (not JSON), "[DONE]" (the sentinel), "empty" (no text),
\* "broken" (a body whose read fails: the connection is lost).
JsonText(v) == [tag |-> "json", value |-> v]
WireText(kind) == [tag |-> kind]

\* json.loads(text)
json_loads(text) == IF text.tag = "json" THEN Ok(text.value) ELSE Err("JSONDecodeError")

\* an exception of class type with its message, raised "from" cause
RaisedWith(type, message, cause) ==
    [tag |-> "Exception", type |-> type, message |-> message, cause |-> cause]
\* an exception the code neither raises itself nor catches
Propagated(type) == RaisedWith(type, <<>>, None)

\* What the transport does for one invocation: urlopen raises URLError, raises
\* HTTPError (whose body reads as text, or whose read fails: body None), or
\* hands over a response with a body (call) or with lines (call_stream).
URLErrorT == [tag |-> "URLError", reason |-> "Connection refused"]
HTTPErrorT(body) ==
    [tag |-> "HTTPError", code |-> "500", reason |-> "Internal Server Error",
     body |-> body]
ResponseT(body, lines) == [tag |-> "response", body |-> body, lines |-> lines]

\* {"choices": [{<field>: {"content": <content>}}]}
Completion(field, content) ==
    JObj(<<[key |-> "choices",
            value |-> JArr(<<JObj(<<[key |-> field,
                                     value |-> JObj(<<[key |-> "content",
                                                       value |-> content]>>)]>>)>>)]>>)
EmptyObject == JObj(<<>>)

\* mutation of handle_http_error: the body that was read is not put in the message
handle_http_errorDropsBody(e) ==
    RaisedWith("RuntimeError",
               <<"Inference API HTTP error ", e.code, " ", e.reason, ": ", "<no body>">>,
               Some("HTTPError"))

\* _handle_http_error(e): the RuntimeError it raises from e
handle_http_error(e) ==
    LET body == IF IsNone(e.body) THEN <<>> ELSE e.body.v
    IN RaisedWith("RuntimeError",
                  <<"Inference API HTTP error ", e.code, " ", e.reason, ": ">>
                      \o (IF body # <<>> THEN body ELSE <<"<no body>">>),
                  Some("HTTPError"))

\* the RuntimeError both operations raise from a URLError
request_failed(e) ==
    RaisedWith("RuntimeError", <<"Inference API request failed: ", e.reason>>,
               Some("URLError"))

\* settings.model is None: the ValueError both operations raise
model_required ==
    RaisedWith("ValueError", <<"InferenceSettings.model is required">>, None)

\* Response(content)
Response(content) == [tag |-> "Response", content |-> content]

\* _extract_inference_response_content on an open response: the content, or
\* the exception that leaves the with block (the read failing, json.loads
\* raising, or the RuntimeError raised for a body without the content)
extract_inference_response_content(body) ==
    IF body.tag = "broken" THEN Propagated("OSError")
    ELSE LET json_body == json_loads(body)
         IN IF json_body.tag = "raise" THEN Propagated(json_body.type)
            ELSE LET content ==
                         get_in(<<Name("choices"), Index(0), Name("message"),
                                  Name("content")>>, json_body.v)
                 IN IF IsNone(content)
                    THEN RaisedWith("RuntimeError",
                                    <<"Unexpected inference API response shape: ">>,
                                    None)
                    ELSE Ok(content)

\* a transport line after decode("utf-8").strip(): its first six characters
\* (as one token) and what follows them; decodes = FALSE: the bytes are not UTF-8
Line(head, rest) == [decodes |-> TRUE, head |-> head, rest |-> rest]
DataLine(text) == Line("data: ", text)

\* the lines a scripted stream is made of: a blank line, a keep-alive comment,
\* bytes that do not decode, and data lines with the deltas "Hel", "lo" and
\* "", with a null content, a delta without content, a content that is a list
\* of parts, with {}, {"choices": []}, 5, text that is not JSON, and [DONE]
StreamLines ==
    {Line("", WireText("empty")),
     Line(": ping", WireText("empty")),
     [decodes |-> FALSE, head |-> "", rest |-> WireText("empty")],
     DataLine(JsonText(Completion("delta", JStr(<<"H", "e", "l">>)))),
     DataLine(JsonText(Completion("delta", JStr(<<"l", "o">>)))),
     DataLine(JsonText(Completion("delta", JStr(<<>>)))),
     DataLine(JsonText(Completion("delta", None))),
     DataLine(JsonText(JObj(<<[key |-> "choices",
                               value |-> JArr(<<JObj(<<[key |-> "delta",
                                                        value |-> EmptyObject]>>)>>)]>>))),
     DataLine(JsonText(Completion("delta", JArr(<<JStr(<<"H", "i">>)>>)))),
     DataLine(JsonText(EmptyObject)),
     DataLine(JsonText(JObj(<<[key |-> "choices", value |-> JArr(<<>>)]>>))),
     DataLine(JsonText([tag |-> "number", n |-> 5])),
     DataLine(WireText("garbage")),
     DataLine(WireText("[DONE]"))}

\* data.get("choices", [{}])[0].get("delta", {}).get("content"): only a dict
\* has get (AttributeError otherwise); [0] is operator.getitem
StreamRecordContent(data) ==
    IF data.tag # "object" THEN Err("AttributeError")
    ELSE LET first == GetItem(DictGet(data, "choices", JArr(<<EmptyObject>>)), Index(0))
         IN IF first.tag = "raise" THEN first
            ELSE IF first.v.tag # "object" THEN Err("AttributeError")
            ELSE LET delta == DictGet(first.v, "delta", EmptyObject)
                 IN IF delta.tag # "object" THEN Err("AttributeError")
                    ELSE Ok(DictGet(delta, "content", None))

\* one turn of the for loop on a line: continue, break, yield a fragment, or
\* an exception that leaves the loop (only JSONDecodeError is caught)
StreamStep(line) ==
    IF ~line.decodes THEN Err("UnicodeDecodeError")
    ELSE IF line.head = "" \/ line.head # "data: " THEN [tag |-> "continue"]
    ELSE IF line.rest.tag = "[DONE]" THEN [tag |-> "break"]
    ELSE LET data == json_loads(line.rest)
         IN IF data.tag = "raise" THEN [tag |-> "continue"]
            ELSE LET content == StreamRecordContent(data.v)
                 IN IF content.tag = "raise" THEN content
                    ELSE IF JTruthy(content.v) THEN [tag |-> "yield", v |-> content.v]
                    ELSE [tag |-> "continue"]

\* urlopen raising: URLError, or HTTPError with a body, an empty body, or a
\* body that cannot be read
FailedTransports ==
    {URLErrorT, HTTPErrorT(Some(<<"overloaded">>)), HTTPErrorT(Some(<<>>)),
     HTTPErrorT(None)}
\* for call: a failure, or a response whose body has the content "Hi", "" or
\* null, has it under delta, is {"choices": []}, {} or 5, is not JSON, or breaks
CallTransports ==
    FailedTransports
        \cup {ResponseT(b, <<>>) :
                b \in {JsonText(Completion("message", JStr(<<"H", "i">>))),
                       JsonText(Completion("message", JStr(<<>>))),
                       JsonText(Completion("message", None)),
                       JsonText(Completion("delta", JStr(<<"H", "i">>))),
                       JsonText(JObj(<<[key |-> "choices", value |-> JArr(<<>>)]>>)),
                       JsonText(EmptyObject),
                       JsonText([tag |-> "number", n |-> 5]),
                       WireText("garbage"),
                       WireText("broken")}}
StreamTransports ==
    FailedTransports
        \cup {ResponseT(WireText("empty"), ls) : ls \in SeqUpTo(StreamLines, MaxLines)}

\* the pipeline is not running: pc names the operation modelled instead
PipelineAt(p) ==
    /\ tb = <<>>
    /\ frameworks = <<>>
    /\ tracing = FALSE
    /\ tb_pos = 1
    /\ bundle = <<>>
    /\ fs_calls = <<>>
    /\ pc = p
    /\ error = None
    /\ immediate = None
    /\ outer = <<>>
    /\ fw_acc = <<>>
    /\ extract_calls = <<>>
    /\ context = None
    /\ prompt_args = None
    /\ prompt = None
    /\ fl_in = None
    /\ fl_out = None

\* one invocation of call or call_stream: for call_stream the generator has
\* been created and nothing of its body has run
InitInference ==
    /\ PipelineAt("inference")
    /\ operation \in {"call", "call_stream"}
    /\ settings \in {[model |-> None], [model |-> Some(<<"gpt">>)]}
    /\ transport \in (IF operation = "call" THEN CallTransports ELSE StreamTransports)
    /\ ipc = "created"
    /\ line_no = 0
    /\ yielded = <<>>
    /\ response = None
    /\ raised = None
    /\ requests = 0
    /\ opened = 0
    /\ closed = 0
    /\ pulls = 0
    /\ ChatIdle
    /\ PluginIdle
    /\ CoreIdle

\* mutation of Call: a failed request is made a second time
CallRetries ==
    /\ operation = "call"
    /\ ipc = "created"
    /\ IF IsNone(settings.model)
       THEN /\ raised' = model_required
            /\ UNCHANGED <<response, requests, opened, closed>>
       ELSE /\ requests' = requests + (IF transport.tag = "response" THEN 1 ELSE 2)
            /\ CASE transport.tag = "URLError" ->
                      /\ raised' = request_failed(transport)
                      /\ UNCHANGED <<response, opened, closed>>
                 [] transport.tag = "HTTPError" ->
                      /\ raised' = handle_http_error(transport)
                      /\ UNCHANGED <<response, opened, closed>>
                 [] transport.tag = "response" ->
                      LET content == extract_inference_response_content(transport.body)
                      IN /\ opened' = opened + 1
                         /\ closed' = closed + 1
                         /\ IF content.tag = "ok"
                            THEN response' = Response(content.v) /\ raised' = None
                            ELSE response' = None /\ raised' = content
    /\ ipc' = IF IsNone(raised') THEN "returned" ELSE "raised"
    /\ UNCHANGED <<pipelineVars, localsVars, pluginVars, coreVars, chatVars, operation, settings, transport, line_no,
                   yielded, pulls>>

\* InferenceApi.call, from the model check to the return or the exception
Call ==
    /\ operation = "call"
    /\ ipc = "created"
    /\ IF IsNone(settings.model)
       THEN /\ raised' = model_required
            /\ UNCHANGED <<response, requests, opened, closed>>
       ELSE /\ requests' = requests + 1
            /\ CASE transport.tag = "URLError" ->
                      /\ raised' = request_failed(transport)
                      /\ UNCHANGED <<response, opened, closed>>
                 [] transport.tag = "HTTPError" ->
                      /\ raised' = handle_http_error(transport)
                      /\ UNCHANGED <<response, opened, closed>>
                 [] transport.tag = "response" ->
                      LET content == extract_inference_response_content(transport.body)
                      IN /\ opened' = opened + 1
                         /\ closed' = closed + 1
                         /\ IF content.tag = "ok"
                            THEN response' = Response(content.v) /\ raised' = None
                            ELSE response' = None /\ raised' = content
    /\ ipc' = IF IsNone(raised') THEN "returned" ELSE "raised"
    /\ UNCHANGED <<pipelineVars, localsVars, pluginVars, coreVars, chatVars, operation, settings, transport, line_no,
                   yielded, pulls>>

\* mutation of StreamStart: the request is sent before the model is looked at
StreamStartOpensFirst ==
    /\ operation = "call_stream"
    /\ ipc = "created"
    /\ requests' = requests + 1
    /\ CASE transport.tag = "URLError" ->
              /\ raised' = request_failed(transport)
              /\ ipc' = "raised"
              /\ UNCHANGED opened
         [] transport.tag = "HTTPError" ->
              /\ raised' = handle_http_error(transport)
              /\ ipc' = "raised"
              /\ UNCHANGED opened
         [] transport.tag = "response" ->
              /\ opened' = opened + 1
              /\ IF IsNone(settings.model)
                 THEN raised' = model_required /\ ipc' = "raised"
                 ELSE raised' = None /\ ipc' = "reading"
    /\ pulls' = pulls + 1
    /\ UNCHANGED <<pipelineVars, localsVars, pluginVars, coreVars, chatVars, operation, settings, transport, line_no,
                   yielded, response, closed>>

\* call_stream's first resumption, up to the for loop: the model check, the
\* request, and urlopen's outcome
StreamStart ==
    /\ operation = "call_stream"
    /\ ipc = "created"
    /\ IF IsNone(settings.model)
       THEN /\ raised' = model_required
            /\ ipc' = "raised"
            /\ UNCHANGED <<requests, opened>>
       ELSE /\ requests' = requests + 1
            /\ CASE transport.tag = "URLError" ->
                      /\ raised' = request_failed(transport)
                      /\ ipc' = "raised"
                      /\ UNCHANGED opened
                 [] transport.tag = "HTTPError" ->
                      /\ raised' = handle_http_error(transport)
                      /\ ipc' = "raised"
                      /\ UNCHANGED opened
                 [] transport.tag = "response" ->
                      /\ opened' = opened + 1
                      /\ ipc' = "reading"
                      /\ UNCHANGED raised
    /\ pulls' = pulls + 1
    /\ UNCHANGED <<pipelineVars, localsVars, pluginVars, coreVars, chatVars, operation, settings, transport, line_no,
                   yielded, response, closed>>

\* the generator is inside the try block: running the loop, or suspended at yield
InLoop == operation = "call_stream" /\ ipc \in {"reading", "suspended"}

\* mutation of StreamLine: the loop goes on reading after a fragment, which is
\* kept for the consumer
StreamLineReadsAhead ==
    /\ InLoop
    /\ line_no < Len(transport.lines)
    /\ line_no' = line_no + 1
    /\ LET step == StreamStep(transport.lines[line_no + 1])
       IN CASE step.tag = "continue" ->
                 /\ ipc' = "reading"
                 /\ UNCHANGED <<yielded, raised, closed>>
            [] step.tag = "yield" ->
                 /\ yielded' = Append(yielded, step.v)
                 /\ ipc' = "reading"
                 /\ UNCHANGED <<raised, closed>>
            [] step.tag = "break" ->
                 /\ closed' = closed + 1
                 /\ ipc' = "returned"
                 /\ UNCHANGED <<yielded, raised>>
            [] step.tag = "raise" ->
                 /\ raised' = Propagated(step.type)
                 /\ closed' = closed + 1
                 /\ ipc' = "raised"
                 /\ UNCHANGED yielded
    /\ pulls' = IF ipc = "suspended" THEN pulls + 1 ELSE pulls
    /\ UNCHANGED <<pipelineVars, localsVars, pluginVars, coreVars, chatVars, operation, settings, transport,
                   response, requests, opened>>

\* one turn of the for loop, on the next line of the response; a generator
\* suspended at yield runs again only inside the consumer's next next() call.
\* continue: on
\* to the next line; yield: the fragment is handed over and the generator is
\* suspended; break: the finally block, then the generator ends; an exception:
\* the finally block, then the exception reaches the consumer
StreamLine ==
    /\ InLoop
    /\ line_no < Len(transport.lines)
    /\ line_no' = line_no + 1
    /\ LET step == StreamStep(transport.lines[line_no + 1])
       IN CASE step.tag = "continue" ->
                 /\ ipc' = "reading"
                 /\ UNCHANGED <<yielded, raised, closed>>
            [] step.tag = "yield" ->
                 /\ yielded' = Append(yielded, step.v)
                 /\ ipc' = "suspended"
                 /\ UNCHANGED <<raised, closed>>
            [] step.tag = "break" ->
                 /\ closed' = closed + 1
                 /\ ipc' = "returned"
                 /\ UNCHANGED <<yielded, raised>>
            [] step.tag = "raise" ->
                 /\ raised' = Propagated(step.type)
                 /\ closed' = closed + 1
                 /\ ipc' = "raised"
                 /\ UNCHANGED yielded
    /\ pulls' = IF ipc = "suspended" THEN pulls + 1 ELSE pulls
    /\ UNCHANGED <<pipelineVars, localsVars, pluginVars, coreVars, chatVars, operation, settings, transport,
                   response, requests, opened>>

\* the response has no more lines: the loop ends, the finally block runs
StreamExhausted ==
    /\ InLoop
    /\ line_no = Len(transport.lines)
    /\ closed' = closed + 1
    /\ ipc' = "returned"
    /\ pulls' = IF ipc = "suspended" THEN pulls + 1 ELSE pulls
    /\ UNCHANGED <<pipelineVars, localsVars, pluginVars, coreVars, chatVars, operation, settings, transport, line_no,
                   yielded, response, raised, requests, opened>>

\* reading the next line from the response fails (the connection is lost)
StreamReadFails ==
    /\ InLoop
    /\ raised' = Propagated("OSError")
    /\ closed' = closed + 1
    /\ ipc' = "raised"
    /\ pulls' = IF ipc = "suspended" THEN pulls + 1 ELSE pulls
    /\ UNCHANGED <<pipelineVars, localsVars, pluginVars, coreVars, chatVars, operation, settings, transport, line_no,
                   yielded, response, requests, opened>>

\* mutation of StreamAbandon: the finally block does not run on GeneratorExit
StreamAbandonLeaks ==
    /\ operation = "call_stream"
    /\ ipc \in {"created", "suspended"}
    /\ ipc' = "abandoned"
    /\ UNCHANGED <<pipelineVars, localsVars, pluginVars, coreVars, chatVars, operation, settings, transport, line_no,
                   yielded, response, raised, requests, opened, closed, pulls>>

\* the consumer drops the generator before it ended: not started, nothing has
\* run; suspended at yield, GeneratorExit is raised there and the finally
\* block runs
StreamAbandon ==
    /\ operation = "call_stream"
    /\ ipc \in {"created", "suspended"}
    /\ closed' = IF ipc = "suspended" THEN closed + 1 ELSE closed
    /\ ipc' = "abandoned"
    /\ UNCHANGED <<pipelineVars, localsVars, pluginVars, coreVars, chatVars, operation, settings, transport, line_no,
                   yielded, response, raised, requests, opened, pulls>>

NextInference ==
    \/ Call
    \/ StreamStart
    \/ StreamLine
    \/ StreamExhausted
    \/ StreamReadFails
    \/ StreamAbandon

SpecInference == InitInference /\ [][NextInference]_vars

\* ------------------------------------------------------ lib/ports/chat.py
\* The most plain-text inputs (and the most responses) one session takes.
MaxTurns == 2

Message(role, content) == [role |-> role, content |-> content]
SYSTEM_PROMPT == <<"SYSTEM_PROMPT">>

\* class ChatCommand(Enum), in definition order
ChatCommand ==
    <<[name |-> "HELP", value |-> <<"/", "help">>],
      [name |-> "SAVE", value |-> <<"/", "save">>],
      [name |-> "QUIT", value |-> <<"/", "quit">>],
      [name |-> "QUIT_SHORT", value |-> <<"/", "q">>]>>

\* text.lstrip(): whitespace is the token " "
RECURSIVE LStrip(_)
LStrip(text) ==
    IF text # <<>> /\ Head(text) = " " THEN LStrip(Tail(text)) ELSE text
\* text.strip()
Strip(text) == Reversed(LStrip(Reversed(LStrip(text))))

\* _is_command(text)
is_command(text) == StartsWith(Strip(text), <<"/">>)

\* mutation of parse_command: the text is compared without lower()
parse_commandCaseSensitive(text) ==
    LET t == Strip(text)
    IN IF \E i \in 1..Len(ChatCommand) : ChatCommand[i].value = t
       THEN Some(ChatCommand[CHOOSE i \in 1..Len(ChatCommand) :
                                 ChatCommand[i].value = t].name)
       ELSE None

\* _parse_command(text): the command's name, or None
parse_command(text) ==
    LET t == Lower(Strip(text))
    IN IF \E i \in 1..Len(ChatCommand) : ChatCommand[i].value = t
       THEN Some(ChatCommand[CHOOSE i \in 1..Len(ChatCommand) :
                                 ChatCommand[i].value = t].name)
       ELSE None

\* what interface.prompt can hand over: None at end of input, or a text
ChatInputs ==
    {<<"why?">>, <<>>, <<"a", "/", "q">>,
     <<"/", "quit">>, <<"/", "q">>, <<" ", "/", "Q", " ">>, <<"/", "QUIT">>,
     <<"/", "help">>, <<"/", "save">>, <<" ", "/", "Save">>,
     <<"/", "bogus">>, <<"/", "quit", " ", "now">>, <<"/">>}
\* the texts handed to add_response
Responses == {<<"because">>}

\* the exception context a session is created with
ExceptionContexts ==
    {None,
     [tag |-> "ExceptionContext", python_version |-> <<"3.11">>,
      exception_type_name |-> <<"ValueError">>, exception_message |-> <<"boom">>]}

\* Chat.__init__
InitialMessages(initial_prompt, analysis) ==
    <<Message("system", SYSTEM_PROMPT), Message("user", initial_prompt),
      Message("assistant", analysis)>>

\* _handle_help: find_spec("rich.console.Console") imports the parent
\* rich.console, which is missing or is a module without __path__: it raises
\* ModuleNotFoundError either way, before anything is displayed
handle_help == Err("ModuleNotFoundError")

\* the [msg for msg in self.messages if msg.role != "system"] of _handle_save
RECURSIVE NonSystem(_)
NonSystem(msgs) ==
    IF msgs = <<>> THEN <<>>
    ELSE (IF Head(msgs).role # "system" THEN <<Head(msgs)>> ELSE <<>>)
             \o NonSystem(Tail(msgs))

\* the name _handle_save gives the file, from the time of the save
ExportFileName == <<"fincantatem_chat_", "%Y-%m-%d_%H-%M", ".json">>

\* asdict of one Message: a dict of its two fields
MessageDict(msg) ==
    JObj(<<[key |-> "role", value |-> JStr(<<msg.role>>)],
           [key |-> "content", value |-> JStr(msg.content)]>>)

\* mutation of ExportData: the history is exported whole, system message included
ExportDataWithSystem(ctx, msgs) ==
    JObj(<<[key |-> "timestamp", value |-> [tag |-> "number", n |-> "now"]],
           [key |-> "version", value |-> JStr(<<"CHAT_EXPORT_JSON_VERSION">>)],
           [key |-> "python_version",
            value |-> IF IsNone(ctx) THEN None ELSE JStr(ctx.python_version)],
           [key |-> "exception",
            value |-> IF IsNone(ctx) THEN None
                      ELSE JObj(<<[key |-> "type", value |-> JStr(ctx.exception_type_name)],
                                  [key |-> "message", value |-> JStr(ctx.exception_message)]>>)],
           [key |-> "messages",
            value |-> JArr([k \in 1..Len(msgs) |-> MessageDict(msgs[k])])]>>)

\* the document json.dump writes for asdict(export_data) as _handle_save builds
\* it: asdict keeps every field of the dataclass, a field left at None is
\* written as a key holding null
ExportData(ctx, msgs) ==
    JObj(<<[key |-> "timestamp", value |-> [tag |-> "number", n |-> "now"]],
           [key |-> "version", value |-> JStr(<<"CHAT_EXPORT_JSON_VERSION">>)],
           [key |-> "python_version",
            value |-> IF IsNone(ctx) THEN None ELSE JStr(ctx.python_version)],
           [key |-> "exception",
            value |-> IF IsNone(ctx) THEN None
                      ELSE JObj(<<[key |-> "type", value |-> JStr(ctx.exception_type_name)],
                                  [key |-> "message", value |-> JStr(ctx.exception_message)]>>)],
           [key |-> "messages",
            value |-> JArr([k \in 1..Len(NonSystem(msgs)) |->
                                MessageDict(NonSystem(msgs)[k])])]>>)

\* interface.display(text, ...) as ask_user and _handle_save make it
Notice(kind, text) == [tag |-> "notice", kind |-> kind, text |-> text]
UnknownCommandNotice(text) ==
    Notice("unknown",
           <<"  ! Unknown command: ">> \o text
               \o <<". Type /help for available commands.">>)

Returned(v) == [tag |-> "return", v |-> v]

\* a session freshly created by Chat(interface, prompt, response, context)
InitChat ==
    /\ PipelineAt("chat")
    /\ InferenceIdle
    /\ PluginIdle
    /\ CoreIdle
    /\ messages = InitialMessages(<<"prompt">>, <<"analysis">>)
    /\ exception_context \in ExceptionContexts
    /\ chat_pc = "awaiting"
    /\ user_input = Nothing
    /\ returned = Nothing
    /\ notice = None
    /\ export = None

\* ask_user is about to read an input: it has just been called, or it called
\* itself after a command
Asking == chat_pc \in {"awaiting", "prompting"}

\* interface.prompt answers None
AskUserEndOfInput ==
    /\ Asking
    /\ user_input' = None
    /\ returned' = Returned(None)
    /\ chat_pc' = "terminated"
    /\ UNCHANGED <<pipelineVars, localsVars, pluginVars, coreVars, inferenceVars, messages, exception_context, notice, export>>

\* the input parses to QUIT or QUIT_SHORT
AskUserQuit ==
    /\ Asking
    /\ \E text \in ChatInputs :
          /\ is_command(text)
          /\ parse_command(text) \in {Some("QUIT"), Some("QUIT_SHORT")}
          /\ user_input' = Some(text)
    /\ returned' = Returned(None)
    /\ chat_pc' = "terminated"
    /\ UNCHANGED <<pipelineVars, localsVars, pluginVars, coreVars, inferenceVars, messages, exception_context, notice, export>>

\* the input parses to HELP: _handle_help raises out of ask_user
AskUserHelp ==
    /\ Asking
    /\ \E text \in ChatInputs :
          /\ is_command(text)
          /\ parse_command(text) = Some("HELP")
          /\ user_input' = Some(text)
    /\ returned' = Propagated(handle_help.type)
    /\ chat_pc' = "raised"
    /\ UNCHANGED <<pipelineVars, localsVars, pluginVars, coreVars, inferenceVars, messages, exception_context, notice, export>>

\* what open(filename, "w") followed by json.dump can come to: the document
\* is written, open raises, or the write raises after open created the file
SaveOutcomes == {"written", "open failed", "write failed"}

\* the file system and the display after _handle_save took the outcome o
HandleSave(o) ==
    /\ export' =
           CASE o = "written" ->
                    [tag |-> "file", name |-> ExportFileName,
                     content |-> ExportData(exception_context, messages)]
             [] o = "open failed" -> export
             [] OTHER -> [tag |-> "partial", name |-> ExportFileName]
    /\ notice' =
           IF o = "written"
           THEN Notice("saved", <<"  * Chat saved to: ">> \o ExportFileName)
           ELSE Notice("save failed", <<"  ! Failed to save: ">>)

\* mutation of AskUserSave: an error of the write is not caught
AskUserSaveFailurePropagates ==
    /\ Asking
    /\ \E text \in ChatInputs :
          /\ is_command(text)
          /\ parse_command(text) = Some("SAVE")
          /\ user_input' = Some(text)
    /\ \E o \in SaveOutcomes :
          IF o = "written"
          THEN /\ HandleSave(o)
               /\ returned' = Nothing
               /\ chat_pc' = "prompting"
          ELSE /\ UNCHANGED <<export, notice>>
               /\ returned' = Propagated("OSError")
               /\ chat_pc' = "raised"
    /\ UNCHANGED <<pipelineVars, localsVars, pluginVars, coreVars, inferenceVars, messages, exception_context>>

\* the input parses to SAVE: _handle_save writes the file and reports it, or
\* reports that writing failed; ask_user then calls itself
AskUserSave ==
    /\ Asking
    /\ \E text \in ChatInputs :
          /\ is_command(text)
          /\ parse_command(text) = Some("SAVE")
          /\ user_input' = Some(text)
    /\ \E o \in SaveOutcomes : HandleSave(o)
    /\ returned' = Nothing
    /\ chat_pc' = "prompting"
    /\ UNCHANGED <<pipelineVars, localsVars, pluginVars, coreVars, inferenceVars, messages, exception_context>>

\* mutation of AskUserUnknown: the unrecognised command is kept as a user message
AskUserUnknownAppends ==
    /\ Asking
    /\ \E text \in ChatInputs :
          /\ is_command(text)
          /\ IsNone(parse_command(text))
          /\ user_input' = Some(text)
          /\ notice' = UnknownCommandNotice(text)
          /\ messages' = Append(messages, Message("user", text))
    /\ returned' = Nothing
    /\ chat_pc' = "prompting"
    /\ UNCHANGED <<pipelineVars, localsVars, pluginVars, coreVars, inferenceVars, exception_context, export>>

\* the input starts with "/" and parses to no command: a notice, and ask_user
\* calls itself
AskUserUnknown ==
    /\ Asking
    /\ \E text \in ChatInputs :
          /\ is_command(text)
          /\ IsNone(parse_command(text))
          /\ user_input' = Some(text)
          /\ notice' = UnknownCommandNotice(text)
          /\ messages' = messages
    /\ returned' = Nothing
    /\ chat_pc' = "prompting"
    /\ UNCHANGED <<pipelineVars, localsVars, pluginVars, coreVars, inferenceVars, exception_context, export>>

\* mutation of AskUserPlain: the user message is appended twice
AskUserPlainTwice ==
    /\ Asking
    /\ \E text \in ChatInputs :
          /\ ~is_command(text)
          /\ Len(messages) + 2 <= Len(InitialMessages(<<>>, <<>>)) + 2 * MaxTurns
          /\ user_input' = Some(text)
          /\ messages' = messages \o <<Message("user", text), Message("user", text)>>
          /\ returned' = Returned(Some(text))
    /\ chat_pc' = "replying"
    /\ UNCHANGED <<pipelineVars, localsVars, pluginVars, coreVars, inferenceVars, exception_context, notice, export>>

\* the input is not a command: appended as a user message and returned
AskUserPlain ==
    /\ Asking
    /\ \E text \in ChatInputs :
          /\ ~is_command(text)
          /\ Len(messages) + 2 <= Len(InitialMessages(<<>>, <<>>)) + 2 * MaxTurns
          /\ user_input' = Some(text)
          /\ messages' = Append(messages, Message("user", text))
          /\ returned' = Returned(Some(text))
    /\ chat_pc' = "replying"
    /\ UNCHANGED <<pipelineVars, localsVars, pluginVars, coreVars, inferenceVars, exception_context, notice, export>>

\* mutation of AddResponse: the response takes the place of the last message
AddResponseOverwrites ==
    /\ chat_pc \in {"awaiting", "replying"}
    /\ Len(messages) < Len(InitialMessages(<<>>, <<>>)) + 2 * MaxTurns
    /\ \E r \in Responses : messages' = [messages EXCEPT ![Len(messages)] = Message("assistant", r)]
    /\ chat_pc' = "awaiting"
    /\ user_input' = Nothing
    /\ UNCHANGED <<pipelineVars, localsVars, pluginVars, coreVars, inferenceVars, exception_context, returned, notice, export>>

\* add_response(response), called by the loop after a prompt was returned (or
\* by any other holder of the session between two ask_user calls)
AddResponse ==
    /\ chat_pc \in {"awaiting", "replying"}
    /\ Len(messages) < Len(InitialMessages(<<>>, <<>>)) + 2 * MaxTurns
    /\ \E r \in Responses : messages' = Append(messages, Message("assistant", r))
    /\ chat_pc' = "awaiting"
    /\ user_input' = Nothing
    /\ UNCHANGED <<pipelineVars, localsVars, pluginVars, coreVars, inferenceVars, exception_context, returned, notice, export>>

NextChat ==
    \/ AskUserEndOfInput
    \/ AskUserQuit
    \/ AskUserHelp
    \/ AskUserSave
    \/ AskUserUnknown
    \/ AskUserPlain
    \/ AddResponse

SpecChat == InitChat /\ [][NextChat]_vars

\* ------------------------------------------ the reference plugin on its own
\* a list or tuple, by its elements; it has neither shape nor dtype
PyContainer(r, elems) ==
    [repr |-> r, hasShapeDtype |-> FALSE, dtype |-> <<>>, shape |-> <<>>,
     module |-> <<"builtins">>, is_tracer |-> FALSE, level |-> None, dev |-> NoDev,
     elems |-> elems]

\* the values bound in the frames handed to extract_context: a legacy key, the
\* same signature on a numpy array, a batch of keys, a typed key, a uint32
\* vector that is no key, a float array, a numpy array, an int, a list of
\* arrays and a list holding such a list
PluginValues ==
    {VJaxKey,
     PyValue(<<"array">>, TRUE, <<"uint32">>, <<2>>, <<"numpy">>, FALSE, None, NoDev),
     PyValue(<<"Array">>, TRUE, <<"uint32">>, <<3, 2>>, <<"jax", "lib">>, FALSE, None, NoDev),
     PyValue(<<"Array">>, TRUE, <<"key", "<", "fry", ">">>, <<>>, <<"jax", "lib">>, FALSE,
             None, NoDev),
     PyValue(<<"Array">>, TRUE, <<"uint32">>, <<3>>, <<"jax", "lib">>, FALSE, None, NoDev),
     VJaxArray, VNumpy, VInt,
     PyContainer(<<"[", "Array", "]">>, <<VJaxArray>>),
     PyContainer(<<"[", "[", "Array", "]", "]">>,
                 <<PyContainer(<<"[", "Array", "]">>, <<VJaxArray>>)>>)}

\* frame.f_locals: no binding, one binding under one of five names, or a
\* legacy key named rng and one more binding
PluginLocals ==
    LET names == {<<"rng">>, <<"Sub", "key">>, <<"Split", "_", "keys">>,
                  <<"__", "key">>, <<"x">>}
    IN {<<>>}
           \cup {<<Binding(n, v)>> : n \in names, v \in PluginValues}
           \cup {<<Binding(<<"rng">>, VJaxKey), Binding(n, v)>> :
                     n \in names \ {<<"rng">>}, v \in PluginValues}

\* frame.f_code.co_name of those frames
PluginFunctionNames ==
    {<<"step">>, <<"VMAP", "_", "step">>, <<"vmap", "_", "JIT">>, <<"jit", "_", "vmap">>,
     <<"pmap", "_", "grad">>, <<"batched", "_", "parallel">>, <<"xla", "_", "jvp">>,
     <<"grad", "_", "fn">>, <<"vjp">>, <<"compiled">>}

InitJax ==
    /\ PipelineAt("extract_context")
    /\ InferenceIdle
    /\ ChatIdle
    /\ CoreIdle
    /\ ec_in \in {<<SourceCodeBundle(Frame(fn, UserFilePath, 7, locals), "path")>> :
                      fn \in PluginFunctionNames, locals \in PluginLocals}
    /\ ec_out = None

\* JaxFramework.extract_context(source_code_bundles), is_tracing() answering
\* either way
JaxExtractContextAlone ==
    /\ pc = "extract_context"
    /\ IsNone(ec_out)
    /\ \E t \in BOOLEAN : ec_out' = JaxExtractContext(ec_in, t)
    /\ UNCHANGED <<pipelineVars, localsVars, portsVars, ec_in, coreVars>>

NextJax == JaxExtractContextAlone

SpecJax == InitJax /\ [][NextJax]_vars

\* ------------------------------------------------------ one reporting cycle
\* what the endpoint does to the cycle's streaming call: it cannot be reached,
\* it streams "Hel", "lo" and [DONE], it streams "Hel" and then bytes that do
\* not decode, or it streams nothing
CoreTransports ==
    {URLErrorT,
     ResponseT(WireText("empty"),
               <<DataLine(JsonText(Completion("delta", JStr(<<"H", "e", "l">>)))),
                 DataLine(JsonText(Completion("delta", JStr(<<"l", "o">>)))),
                 DataLine(WireText("[DONE]"))>>),
     ResponseT(WireText("empty"),
               <<DataLine(JsonText(Completion("delta", JStr(<<"H", "e", "l">>)))),
                 [decodes |-> FALSE, head |-> "", rest |-> WireText("empty")]>>),
     ResponseT(WireText("empty"), <<>>)}

\* the text display_stream returns: the fragments it consumed, concatenated
RECURSIVE FinalText(_)
FinalText(fragments) ==
    IF fragments = <<>> THEN <<>>
    ELSE Head(fragments).s \o FinalText(Tail(fragments))

\* core_loop has been called with the failure: nothing built yet
InitCore ==
    /\ PipelineAt("core_loop")
    /\ InferenceIdle
    /\ ChatIdle
    /\ PluginIdle
    /\ core_pc = "build_exception_context"
    /\ excepthook = <<>>

\* lines 50 and 53: build_exception_context, then build_prompt; each returns
\* or raises, and core_loop catches nothing
CoreBuilds ==
    /\ core_pc \in {"build_exception_context", "build_prompt"}
    /\ \E ok \in BOOLEAN :
          core_pc' = IF ~ok THEN "raised"
                     ELSE IF core_pc = "build_exception_context" THEN "build_prompt"
                     ELSE "call_stream"
    /\ UNCHANGED <<pipelineVars, localsVars, portsVars, pluginVars, excepthook>>

\* lines 54-60: read_env raises (a custom preset without URL), or call_stream
\* is called and hands back a generator of which nothing has run
CoreCallStream ==
    /\ core_pc = "call_stream"
    /\ \/ /\ core_pc' = "raised"
          /\ UNCHANGED inferenceVars
       \/ /\ operation' = "call_stream"
          /\ settings' \in {[model |-> None], [model |-> Some(<<"gpt">>)]}
          /\ transport' \in CoreTransports
          /\ ipc' = "created"
          /\ core_pc' = "display_stream"
          /\ UNCHANGED <<line_no, yielded, response, raised, requests, opened, closed,
                         pulls>>
    /\ UNCHANGED <<pipelineVars, localsVars, chatVars, pluginVars, excepthook>>

\* line 67 onwards: display_stream has consumed the generator.  The generator
\* raised: the exception leaves core_loop.  It ended: the text is returned
\* and, with chat, the session is created (line 76) and handed to repl_loop
CoreDisplayStreamEnds ==
    /\ core_pc = "display_stream"
    /\ ipc \in {"returned", "raised"}
    /\ IF ipc = "raised"
       THEN core_pc' = "raised" /\ UNCHANGED chatVars
       ELSE \E chat \in BOOLEAN :
               IF chat
               THEN /\ messages' = InitialMessages(<<"prompt">>, FinalText(yielded))
                    /\ exception_context' \in ExceptionContexts \ {None}
                    /\ chat_pc' = "awaiting"
                    /\ core_pc' = "repl_loop"
                    /\ UNCHANGED <<user_input, returned, notice, export>>
               ELSE core_pc' = "excepthook" /\ UNCHANGED chatVars
    /\ UNCHANGED <<pipelineVars, localsVars, inferenceVars, pluginVars, excepthook>>

\* line 77: repl_loop returns when the session is terminated; an exception
\* that left ask_user leaves core_loop
CoreReplLoopEnds ==
    /\ core_pc = "repl_loop"
    /\ chat_pc \in {"terminated", "raised"}
    /\ core_pc' = IF chat_pc = "terminated" THEN "excepthook" ELSE "raised"
    /\ UNCHANGED <<pipelineVars, localsVars, portsVars, pluginVars, excepthook>>

\* mutation of CoreDisableExcepthook: the assignment sits in a finally block
CoreDisableExcepthookAlways ==
    /\ core_pc \in {"excepthook", "raised"}
    /\ excepthook' = Append(excepthook, "lambda *args, **kwargs: None")
    /\ core_pc' = IF core_pc = "raised" THEN "propagated" ELSE "returned"
    /\ UNCHANGED <<pipelineVars, localsVars, portsVars, pluginVars>>

\* line 79, the last statement: sys.excepthook = lambda *args, **kwargs: None
CoreDisableExcepthook ==
    /\ core_pc = "excepthook"
    /\ excepthook' = Append(excepthook, "lambda *args, **kwargs: None")
    /\ core_pc' = "returned"
    /\ UNCHANGED <<pipelineVars, localsVars, portsVars, pluginVars>>

NextCore ==
    \/ CoreBuilds
    \/ CoreCallStream
    \/ /\ core_pc = "display_stream"
       /\ \/ StreamStart
          \/ StreamLine
          \/ StreamExhausted
          \/ StreamReadFails
    \/ CoreDisplayStreamEnds
    \/ /\ core_pc = "repl_loop"
       /\ \/ AskUserEndOfInput
          \/ AskUserQuit
          \/ AskUserHelp
          \/ AskUserSave
          \/ AskUserUnknown
          \/ AskUserPlain
          \/ AddResponse
    \/ CoreReplLoopEnds
    \/ CoreDisableExcepthook

SpecCore == InitCore /\ [][NextCore]_vars

\* ================================================================ claims
ContextReturned == ~IsNone(context)
PromptReturned == ~IsNone(prompt)
ErrorType == IF IsNone(error) THEN "none" ELSE error.type
\* what identifies the frame a bundle was made from
FrameOfBundle(b) == <<b.function_name, b.path, b.line_number_offset, b.local_vars>>
FrameKey(f) == <<f.function_name, f.filename, f.lineno, Dict(f.f_locals)>>

\* C1: whenever build_exception_context returns a context, the walk's chain has
\* k >= 1 bundles, the context's immediate bundle is the chain's last bundle,
\* its outer sequence has k - 1 bundles, and outer followed by immediate is the
\* chain.
C1_ImmediateIsLastOuterIsRest ==
    ContextReturned =>
        LET k == Len(bundle)
            imm == context.immediate_source_code_bundle
            out == context.source_code_bundles
        IN /\ k >= 1
           /\ imm = bundle[k]
           /\ Len(out) + 1 = k
           /\ out \o <<imm>> = bundle
           /\ \A i \in 1..Len(out) : out[i] = bundle[i]

\* C1 witness: a context built from a chain of three bundles, not all alike.
C1_Witness ==
    /\ ContextReturned
    /\ Len(bundle) >= 3
    /\ bundle[1] # bundle[Len(bundle)]
    /\ Len(context.source_code_bundles) = Len(bundle) - 1

\* C2: when the walk ends with no eligible frame, build_exception_context
\* fails with the dedicated EmptyFrameChain error and returns no context.
C2_EmptyChainRaisesEmptyFrameChain ==
    (pc # "fetch" /\ tb_pos > Len(tb) /\ Len(bundle) = 0) =>
        /\ ErrorType = "EmptyFrameChain"
        /\ ~ContextReturned

\* C3: at every point of the walk the bundle list is, frame for frame and in
\* traceback order, the frames walked so far that are not infrastructure
\* frames (the core's own wrapper frame, a frame of the IPython shell).
C3_BundlesAreTheNonInfrastructureFrames ==
    LET walked == SubSeq(tb, 1, IF pc = "raised" /\ ErrorType = "FileSystemAccessError"
                               THEN tb_pos - 1
                               ELSE IF tb_pos > Len(tb) THEN Len(tb) ELSE tb_pos - 1)
        eligible == SelectSeq(walked, LAMBDA f : ~IsInfrastructureFrame(f))
    IN /\ Len(bundle) = Len(eligible)
       /\ \A i \in 1..Len(bundle) : FrameOfBundle(bundle[i]) = FrameKey(eligible[i])

\* C4: the calls of a fetch start with the path-based ones; a frame-based call
\* is made only after a path-based call of the same frame raised; and when a
\* frame-based call raises too, the walk ends with FileSystemAccessError whose
\* cause is that failure, at that frame: nothing further can run, the frames
\* after it are not fetched and no context or prompt exists.
C4_PathFirstThenFallbackThenAbort ==
    LET n == Len(fs_calls)
        isPath(c) == \E i \in 1..Len(PathOps) : c.op = PathOps[i]
        isFrame(c) == \E i \in 1..Len(FrameOps) : c.op = FrameOps[i]
        failed == pc = "raised" /\ ErrorType = "FileSystemAccessError"
    IN /\ n > 0 =>
            /\ fs_calls[1].op = PathOps[1]
            /\ \A i \in 1..n :
                  isFrame(fs_calls[i]) =>
                      /\ \E j \in 1..(i - 1) :
                            /\ isPath(fs_calls[j])
                            /\ ~fs_calls[j].ok
                            /\ fs_calls[j].frame = fs_calls[i].frame
                      /\ \A j \in (i + 1)..n : ~isPath(fs_calls[j])
            /\ \A i \in 1..(n - 1) :
                  ~fs_calls[i].ok => isPath(fs_calls[i]) /\ isFrame(fs_calls[i + 1])
       /\ (n > 0 /\ ~fs_calls[n].ok) <=> failed
       /\ failed =>
            /\ isFrame(fs_calls[n])
            /\ error.cause = fs_calls[n]
            /\ fs_calls[n].frame = tb_pos
            /\ \A i \in 1..n : fs_calls[i].frame = tb_pos
            /\ Len(bundle) < tb_pos
            /\ ~ContextReturned
            /\ ~PromptReturned
            /\ ~ENABLED Next

\* C4 witness: the fallback failed at a frame that follows a fetched frame and
\* precedes an eligible frame, which stays unfetched.
C4_Witness ==
    /\ pc = "raised"
    /\ ErrorType = "FileSystemAccessError"
    /\ Len(bundle) >= 1
    /\ tb_pos < Len(tb)
    /\ ~Skipped(tb[tb_pos + 1])
    /\ fs_calls[Len(fs_calls)].op = FrameOps[2]

\* C5: when build_exception_context returns, extract_context was called once
\* per registered plugin, in registration order, each time with the full chain
\* (outer bundles and immediate bundle), and framework_context is the answers
\* that are not None, in that order.
C5_EveryPluginOnceWithFullChain ==
    /\ Len(extract_calls) <= Len(frameworks)
    /\ \A i \in 1..Len(extract_calls) : extract_calls[i].plugin = i
    /\ ContextReturned =>
        /\ Len(extract_calls) = Len(frameworks)
        /\ \A i \in 1..Len(extract_calls) :
              /\ extract_calls[i].bundles = bundle
              /\ extract_calls[i].bundles =
                     context.source_code_bundles
                         \o <<context.immediate_source_code_bundle>>
        /\ context.framework_context =
               LET answers == [i \in 1..Len(extract_calls) |-> extract_calls[i].result]
               IN SelectSeq(answers, LAMBDA r : ~IsNone(r))

\* C5 witness: two plugins registered, the first answered None and the second
\* a context, for a chain of two bundles or more.
C5_Witness ==
    /\ ContextReturned
    /\ Len(frameworks) = 2
    /\ Len(bundle) >= 2
    /\ IsNone(extract_calls[1].result)
    /\ Len(context.framework_context) = 1

\* a frame of the chain yields an array, a key-like value or a transformation tag
FrameYieldsMetadata(b) ==
    \/ ~IsNone(detect_transformation(b.function_name))
    \/ /\ ~IsNone(b.local_vars)
       /\ \E i \in 1..Len(b.local_vars.items) :
             LET v == b.local_vars.items[i]
             IN /\ ~StartsWith(v.name, <<"__">>)
                /\ \/ ~IsNone(extract_prng_metadata(v.name, v.value))
                   \/ ~IsNone(extract_array_metadata(v.name, v.value))

\* C6: the reference plugin answers None to extract_context when no frame of
\* the chain yields an array, a key-like value or a transformation tag, and
\* then adds no entry to framework_context.
C6_JaxPluginReturnsNothingWhenIrrelevant ==
    \A i \in 1..Len(extract_calls) :
        (/\ frameworks[i] = "jax"
         /\ \A k \in 1..Len(extract_calls[i].bundles) :
               ~FrameYieldsMetadata(extract_calls[i].bundles[k]))
        => /\ IsNone(extract_calls[i].result)
           /\ \A k \in 1..Len(fw_acc) : fw_acc[k].tag # "JaxContext"

\* C7: build_prompt with an unregistered template name fails with the
\* dedicated UnknownTemplate error and returns no text; with a registered name
\* it returns text.
C7_UnknownTemplateRaisesUnknownTemplate ==
    ~IsNone(prompt_args) =>
        IF prompt_args.v \in PROMPT_TEMPLATES
        THEN PromptReturned /\ IsNone(error)
        ELSE ~PromptReturned /\ ErrorType = "UnknownTemplate"

FragmentsOfFrame(b) ==
    LET alone(ctx) == IF ctx.tag = "JaxContext"
                      THEN frame_context_string(JaxExtractContext(<<b>>, tracing), 0)
                      ELSE frame_context_string(OtherExtractContext(<<b>>), 0)
        strs == [i \in 1..Len(context.framework_context) |->
                   alone(context.framework_context[i])]
    IN SelectSeq(strs, LAMBDA x : ~IsNone(x))

\* C9: in a rendered prompt with N outer bundles, the call-stack frames carry
\* the display indices 0..N-1 in order, the frame at display index d is the
\* bundle at position N-1-d (from 0) of the full chain, and each rendered frame
\* carries the framework fragments of that very frame; the immediate frame
\* carries those of the chain's position N.
C9_DisplayIndexAndFrameworkPairing ==
    PromptReturned =>
        LET N == Len(context.source_code_bundles)
            chain(k) == bundle[k + 1]
        IN /\ prompt.immediate.function_name = chain(N).function_name
           /\ prompt.immediate.path = chain(N).path
           /\ prompt.immediate.line_number = chain(N).line_number_offset
           /\ prompt.immediate.framework_info = FragmentsOfFrame(chain(N))
           /\ N >= 1 =>
                LET frames == prompt.call_stack_section.frames
                IN /\ Len(frames) = N
                   /\ \A d \in 0..(N - 1) :
                         LET fr == frames[d + 1]
                             b == chain(N - 1 - d)
                         IN /\ fr.i = d
                            /\ fr.function_name = b.function_name
                            /\ fr.path = b.path
                            /\ fr.code.line = b.line_number_offset
                            /\ fr.local_vars = format_locals(b.local_vars)
                            /\ fr.framework_info = FragmentsOfFrame(b)

\* C9 witness: a prompt over two outer frames that differ, one of them with
\* framework fragments and one without.
C9_Witness ==
    /\ PromptReturned
    /\ Len(context.source_code_bundles) = 2
    /\ context.source_code_bundles[1] # context.source_code_bundles[2]
    /\ Len(prompt.call_stack_section.frames[1].framework_info) = 0
    /\ Len(prompt.call_stack_section.frames[2].framework_info) > 0

\* C10: a rendered prompt has the <call_stack_context> block exactly when the
\* context's outer sequence is not empty; without outer bundles the section is
\* the empty text, and with them the block has one frame entry per outer
\* bundle.
C10_CallStackSectionIffOuterNonEmpty ==
    PromptReturned =>
        LET N == Len(context.source_code_bundles)
            section == prompt.call_stack_section
        IN /\ (section.tag = "call_stack_context") <=> (N > 0)
           /\ N = 0 => section = [tag |-> "empty"]
           /\ N > 0 => Len(section.frames) = N

\* C10 witness: a prompt rendered from a context with no outer bundle.
C10_Witness ==
    /\ PromptReturned
    /\ Len(context.source_code_bundles) = 0
    /\ prompt.call_stack_section.tag = "empty"

\* ---------------------------------------------------- the inference client
IsPrefix(a, b) == Len(a) <= Len(b) /\ SubSeq(b, 1, Len(a)) = a
\* call_stream got a response from urlopen
StreamOpened == operation = "call_stream" /\ opened = 1
IsDataLine(l) == l.decodes /\ l.head = "data: "
IsDoneLine(l) == IsDataLine(l) /\ l.rest.tag = "[DONE]"
\* the lines before the first data: [DONE] line
RECURSIVE BeforeDone(_)
BeforeDone(ls) ==
    IF ls = <<>> \/ IsDoneLine(Head(ls)) THEN <<>>
    ELSE <<Head(ls)>> \o BeforeDone(Tail(ls))
\* what a line has at choices[0].delta.content, None when it has nothing there
ContentDelta(l) ==
    IF IsDataLine(l) /\ l.rest.tag = "json"
    THEN get_in(<<Name("choices"), Index(0), Name("delta"), Name("content")>>,
                l.rest.value)
    ELSE None
\* the record has a content that `if content:` lets through
CarriesDelta(l) == JTruthy(ContentDelta(l))
RECURSIVE DeltasOf(_)
DeltasOf(ls) ==
    IF ls = <<>> THEN <<>>
    ELSE (IF CarriesDelta(Head(ls)) THEN <<ContentDelta(Head(ls))>> ELSE <<>>)
             \o DeltasOf(Tail(ls))
ExpectedFragments == DeltasOf(BeforeDone(transport.lines))
\* the stream ended because reading from the connection failed
TransportFailed == ipc = "raised" /\ raised.type = "OSError"
\* the stream ended, and not by a transport failure or by being abandoned
StreamOver == ipc \in {"returned", "raised"} /\ ~TransportFailed

\* C11: for every sequence of transport lines, what call_stream has yielded is
\* at every moment a prefix of the content deltas of the data records that
\* precede the first data: [DONE] line, in transport order, and when the
\* stream is over (the transport not having failed) it has ended normally
\* having yielded exactly those deltas: blank lines, non-data lines and
\* records that are not JSON are skipped, nothing after [DONE] is yielded.
C11_StreamYieldsDeltasBeforeDone ==
    StreamOpened =>
        /\ IsPrefix(yielded, ExpectedFragments)
        /\ StreamOver => (ipc = "returned" /\ yielded = ExpectedFragments)

\* C12: once the streaming connection is open, the only exception that can
\* end the sequence is a transport failure: no record's content (invalid
\* JSON, or JSON without choices[0].delta.content, such as an empty choices
\* list or a payload that is not an object) raises.
C12_NoRecordEndsTheStreamWithAnError ==
    (StreamOpened /\ ipc = "raised") => raised.type = "OSError"
\* C13: every connection call_stream opens is closed exactly once on every
\* exit path: while the generator is inside the loop its one connection is
\* open and not yet closed, and once the sequence is over (exhausted, ended by
\* [DONE], ended by an exception, or abandoned by the consumer) every opened
\* connection has been closed, once.
C13_ConnectionClosedExactlyOnce ==
    operation = "call_stream" =>
        /\ opened <= 1
        /\ closed <= opened
        /\ InLoop => (opened = 1 /\ closed = 0)
        /\ ipc \in {"returned", "raised", "abandoned"} => closed = opened

\* a stream abandoned at a yield, with lines left unread, and its connection closed
C13_Witness ==
    /\ operation = "call_stream"
    /\ ipc = "abandoned"
    /\ opened = 1
    /\ closed = 1
    /\ line_no < Len(transport.lines)

\* C14: with settings that carry no model, call and call_stream fail with the
\* ValueError "InferenceSettings.model is required" (call_stream when it is
\* first resumed), and no request is sent and no connection opened, whatever
\* the transport would have answered.
C14_NoModelFailsBeforeAnyRequest ==
    (operation # "none" /\ IsNone(settings.model)) =>
        /\ requests = 0
        /\ opened = 0
        /\ IsNone(response)
        /\ yielded = <<>>
        /\ \/ ipc \in {"created", "abandoned"}
           \/ ipc = "raised" /\ raised = model_required

\* call_stream without a model has failed, against a transport that would answer
C14_Witness ==
    /\ operation = "call_stream"
    /\ IsNone(settings.model)
    /\ transport.tag = "response"
    /\ ipc = "raised"

\* what a response body has at choices[0].message.content, None when nothing
ContentAt(body) ==
    IF body.tag = "json"
    THEN get_in(<<Name("choices"), Index(0), Name("message"), Name("content")>>,
                body.value)
    ELSE None

\* C15: a call with a model returns the content at choices[0].message.content
\* of a success response; on a network failure it raises the "request failed"
\* RuntimeError from the URLError; on a non-success status it raises the "HTTP
\* error" RuntimeError from the HTTPError, whose message carries the body when
\* one was read; on a success response (JSON) without that content it raises
\* the "unexpected shape" RuntimeError; whenever it raises, nothing is returned.
C15_CallReturnsContentOrRaises ==
    (operation = "call" /\ ipc # "created" /\ ~IsNone(settings.model)) =>
        /\ ipc = "raised" => (~IsNone(raised) /\ IsNone(response))
        /\ ipc = "returned" => (IsNone(raised) /\ ~IsNone(response))
        /\ transport.tag = "URLError" =>
              /\ ipc = "raised"
              /\ raised.type = "RuntimeError"
              /\ raised.cause = Some("URLError")
              /\ raised.message[1] = "Inference API request failed: "
        /\ transport.tag = "HTTPError" =>
              /\ ipc = "raised"
              /\ raised.type = "RuntimeError"
              /\ raised.cause = Some("HTTPError")
              /\ raised.message[1] = "Inference API HTTP error "
              /\ (~IsNone(transport.body) /\ transport.body.v # <<>>) =>
                     EndsWith(raised.message, transport.body.v)
        /\ (transport.tag = "response" /\ ~IsNone(ContentAt(transport.body))) =>
              /\ ipc = "returned"
              /\ response = Response(ContentAt(transport.body))
        /\ (transport.tag = "response" /\ transport.body.tag = "json"
                /\ IsNone(ContentAt(transport.body))) =>
              /\ ipc = "raised"
              /\ raised.type = "RuntimeError"
              /\ raised.message = <<"Unexpected inference API response shape: ">>

\* a call that failed on a non-success status whose body was read
C15_Witness ==
    /\ operation = "call"
    /\ ~IsNone(settings.model)
    /\ transport.tag = "HTTPError"
    /\ ~IsNone(transport.body)
    /\ transport.body.v # <<>>
    /\ ipc = "raised"

\* C16: an invocation of call or call_stream sends at most one request, and
\* when that request fails (network failure or non-success status) the
\* invocation is over with an exception: nothing is returned or yielded and
\* no second request follows.
C16_AtMostOneRequestNoRetry ==
    operation # "none" =>
        /\ requests <= 1
        /\ (requests = 1 /\ transport.tag # "response") =>
              /\ ipc = "raised"
              /\ ~IsNone(raised)
              /\ IsNone(response)
              /\ yielded = <<>>

\* a call whose one request failed on the network
C16_Witness ==
    /\ operation = "call"
    /\ transport.tag = "URLError"
    /\ requests = 1
    /\ ipc = "raised"
\* -------------------------------------------------------- the chat session
SeedHistory == InitialMessages(<<"prompt">>, <<"analysis">>)
\* the input read is a text that is not a command
PlainInput(i) == i.tag = "Some" /\ ~StartsWith(Strip(i.v), <<"/">>)
\* the input read is a text that starts with "/" once trimmed
CommandInput(i) == i.tag = "Some" /\ StartsWith(Strip(i.v), <<"/">>)
\* a command text that is none of /help, /save, /quit, /q
Unrecognised(text) ==
    Lower(Strip(text)) \notin
        {<<"/", "help">>, <<"/", "save">>, <<"/", "quit">>, <<"/", "q">>}
\* end of input, or /quit or /q once trimmed and lower-cased
Terminating(i) ==
    \/ i.tag = "None"
    \/ i.tag = "Some" /\ Lower(Strip(i.v)) \in {<<"/", "quit">>, <<"/", "q">>}

\* C17: the history starts as [system, user(initial prompt),
\* assistant(initial analysis)] and is append-only: every step of ask_user
\* (any input, commands included) and of add_response leaves the history it
\* found as a prefix of the history it leaves, so every earlier history is a
\* prefix of the current one and the seed, system message first, stays in place.
C17_HistorySeededAndAppendOnly ==
    /\ messages = SeedHistory
    /\ [](IsPrefix(SeedHistory, messages))
    /\ [][IsPrefix(messages, messages')]_vars

\* a history grown by two turns, with a /save handled in between
C17_Witness ==
    /\ chat_pc = "awaiting"
    /\ Len(messages) = Len(SeedHistory) + 4
    /\ ~IsNone(export)

\* C18: on a plain-text input ask_user appends exactly one user message
\* carrying that text, returns the text, and the session goes on; until the
\* reply arrives that user message stays last, and the only change made to the
\* history then is add_response appending exactly one assistant message, after
\* which the session awaits input again.
C18_PlainTextAppendsOneUserMessage ==
    /\ [][PlainInput(user_input') =>
              /\ messages' = Append(messages, Message("user", user_input'.v))
              /\ returned' = Returned(user_input')
              /\ chat_pc' = "replying"]_vars
    /\ [](chat_pc = "replying" =>
              messages[Len(messages)] = Message("user", returned.v.v))
    /\ [][(chat_pc = "replying" /\ messages' # messages) =>
              /\ \E r \in Responses :
                     messages' = Append(messages, Message("assistant", r))
              /\ chat_pc' = "awaiting"]_vars

\* the turn "why?" -> "because" is in the history, user message then reply
C18_Witness ==
    /\ chat_pc = "awaiting"
    /\ Len(messages) = Len(SeedHistory) + 2
    /\ messages[Len(messages) - 1] = Message("user", <<"why?">>)
    /\ messages[Len(messages)] = Message("assistant", <<"because">>)

\* C19: no command input changes the history: whatever input starts with "/"
\* once trimmed (/help, /save, /quit, /q or an unrecognised one), the history
\* after the step is the history before it; an unrecognised command displays
\* the unknown-command notice and ask_user prompts again, nothing returned.
C19_CommandsLeaveHistoryUnchanged ==
    [][CommandInput(user_input') =>
           /\ messages' = messages
           /\ Unrecognised(user_input'.v) =>
                  /\ notice' = UnknownCommandNotice(user_input'.v)
                  /\ returned' = Nothing
                  /\ chat_pc' = "prompting"]_vars

\* /bogus was handled in a session that has had a turn
C19_Witness ==
    /\ user_input = Some(<<"/", "bogus">>)
    /\ notice = UnknownCommandNotice(<<"/", "bogus">>)
    /\ chat_pc = "prompting"
    /\ Len(messages) = Len(SeedHistory) + 2

SaveInput(i) == i.tag = "Some" /\ Lower(Strip(i.v)) = <<"/", "save">>
SavedNotice == Notice("saved", <<"  * Chat saved to: ">> \o ExportFileName)
SaveFailedNotice == Notice("save failed", <<"  ! Failed to save: ">>)

\* C21: /save never terminates the session: whether or not the export
\* document could be written, the step displays the outcome (the success notice
\* with the file name, the file then holding the document, or the failure
\* notice), nothing is returned or raised out of ask_user, and ask_user prompts
\* for the next input with the history as it was.
C21_SaveReportsAndPromptsAgain ==
    [][SaveInput(user_input') =>
           /\ \/ /\ notice' = SavedNotice
                 /\ export' = [tag |-> "file", name |-> ExportFileName,
                               content |-> ExportData(exception_context, messages)]
              \/ /\ notice' = SaveFailedNotice
                 /\ export' \in {export, [tag |-> "partial", name |-> ExportFileName]}
           /\ returned' = Nothing
           /\ chat_pc' = "prompting"
           /\ messages' = messages]_vars

\* a /save whose write failed, after an earlier one had written the document
C21_Witness ==
    /\ user_input = Some(<<" ", "/", "Save">>)
    /\ notice = SaveFailedNotice
    /\ export.tag = "file"
    /\ chat_pc = "prompting"
    /\ returned = Nothing
\* a step of /save that wrote the document
SaveWrote == SaveInput(user_input') /\ notice' = SavedNotice
\* {role, content} of the history entry h
Exported(h) ==
    JObj(<<[key |-> "role", value |-> JStr(<<h.role>>)],
           [key |-> "content", value |-> JStr(h.content)]>>)

\* C22: the `messages` array of a document that /save wrote is exactly the
\* history at the time of the save without its system message, in history
\* order, each entry an object of role and content; the history
\* [system, user(a), assistant(b)] exports exactly [{user, a}, {assistant, b}].
C22_ExportedMessagesAreNonSystemHistory ==
    [][SaveWrote =>
           /\ messages[1].role = "system"
           /\ HasKey(export'.content, "messages")
           /\ DictGet(export'.content, "messages", None) =
                  JArr([k \in 1..(Len(messages) - 1) |-> Exported(messages[k + 1])])
           /\ messages = SeedHistory =>
                  DictGet(export'.content, "messages", None).items =
                      <<Exported(Message("user", <<"prompt">>)),
                        Exported(Message("assistant", <<"analysis">>))>>]_vars

\* a document written after one turn: four entries, the system message not
\* among them
C22_Witness ==
    /\ export.tag = "file"
    /\ notice = SavedNotice
    /\ Len(messages) = Len(SeedHistory) + 2
    /\ Len(DictGet(export.content, "messages", None).items) = Len(messages) - 1
\* C23: a document exported from a session without failure context has no
\* `exception` key; one exported from a session with a failure context has the
\* key, holding that failure's type and message.
C23_ExceptionFieldAbsentWithoutContext ==
    export.tag = "file" =>
        IF IsNone(exception_context)
        THEN ~HasKey(export.content, "exception")
        ELSE /\ HasKey(export.content, "exception")
             /\ DictGet(export.content, "exception", None) =
                    JObj(<<[key |-> "type",
                            value |-> JStr(exception_context.exception_type_name)],
                           [key |-> "message",
                            value |-> JStr(exception_context.exception_message)]>>)
\* ------------------------------------------------------ the reference plugin
\* extract_context has answered for the one bundle handed over
Extracted == ~IsNone(ec_out)
ExtractedLocals == ec_in[1].local_vars.items
ExtractedFrame == ec_out.frame_contexts[1]
\* element type uint32 and shape exactly (2,)
LegacyKeySignature(v) ==
    v.hasShapeDtype /\ v.dtype = <<"uint32">> /\ v.shape = <<2>>
\* the key metadata the claim gives a legacy key bound to name
LegacyKeyMetadata(name) ==
    [tag |-> "PRNGKeyMetadata", name |-> name,
     key_type |-> IF Contains(Lower(name), <<"sub">>) THEN "subkey" ELSE "key",
     was_split |-> Contains(Lower(name), <<"split">>)]
ReportedAsKey(name) ==
    \E k \in 1..Len(ExtractedFrame.prng_keys) : ExtractedFrame.prng_keys[k].name = name
ReportedAsArray(name) ==
    \E k \in 1..Len(ExtractedFrame.arrays) : ExtractedFrame.arrays[k].name = name

\* C24 as stated: a binding whose value has element type uint32 and shape
\* exactly (2,) is reported as key-like whatever its name is, the name deciding
\* only subkey (it contains "sub") and split (it contains "split").
C24_KeyLikeWhateverTheName ==
    Extracted =>
        \A i \in 1..Len(ExtractedLocals) :
            LegacyKeySignature(ExtractedLocals[i].value) =>
                \E k \in 1..Len(ExtractedFrame.prng_keys) :
                    ExtractedFrame.prng_keys[k] =
                        LegacyKeyMetadata(ExtractedLocals[i].name)

\* C24 amended: a binding whose name starts with "__" is skipped, it is
\* reported neither as key-like nor as an array; every other binding whose value
\* has element type uint32 and shape exactly (2,) is reported as key-like (and
\* not as an array) whatever its name is and whatever module its type comes
\* from, the name deciding only subkey and split.
C24_KeyLikeUnlessNameIsDunder ==
    Extracted =>
        \A i \in 1..Len(ExtractedLocals) :
            LET b == ExtractedLocals[i]
            IN IF StartsWith(b.name, <<"__">>)
               THEN ~ReportedAsKey(b.name) /\ ~ReportedAsArray(b.name)
               ELSE LegacyKeySignature(b.value) =>
                        /\ \E k \in 1..Len(ExtractedFrame.prng_keys) :
                               ExtractedFrame.prng_keys[k] = LegacyKeyMetadata(b.name)
                        /\ ~ReportedAsArray(b.name)

\* a legacy key bound to rng and a numpy array of the same signature bound to
\* Split_keys: both reported, the second one as split
C24_Witness ==
    /\ Extracted
    /\ Len(ExtractedLocals) = 2
    /\ ExtractedLocals[2].name = <<"Split", "_", "keys">>
    /\ ExtractedLocals[2].value.module = <<"numpy">>
    /\ ExtractedFrame.prng_keys =
           <<LegacyKeyMetadata(<<"rng">>), LegacyKeyMetadata(<<"Split", "_", "keys">>)>>
    /\ ExtractedFrame.prng_keys[2].was_split
\* the lower-cased function name of the frame contains one of the markers
HasMarker(markers) ==
    \E m \in markers : Contains(Lower(ec_in[1].function_name), <<m>>)
VectorizeMarkers == {"vmap", "batched"}
ParallelizeMarkers == {"pmap", "parallel"}
CompileMarkers == {"jit", "compiled", "xla"}
DifferentiateMarkers == {"grad", "vjp", "jvp"}

\* C25: the transformation tag of a frame is decided by the lower-cased
\* function name alone, by first match in the order vectorize, parallelize,
\* compile, differentiate: a name with a vectorize marker is tagged vectorize
\* even when it holds a later marker too, and a name with no marker gets no tag;
\* locals and the tracing flag play no part.
C25_TransformationByFirstMarker ==
    Extracted =>
        ExtractedFrame.transformation_context =
            (IF HasMarker(VectorizeMarkers) THEN Some("vectorize")
             ELSE IF HasMarker(ParallelizeMarkers) THEN Some("parallelize")
             ELSE IF HasMarker(CompileMarkers) THEN Some("compile")
             ELSE IF HasMarker(DifferentiateMarkers) THEN Some("differentiate")
             ELSE None)

\* vmap_JIT holds a vectorize and a compile marker and is tagged vectorize
C25_Witness ==
    /\ Extracted
    /\ ec_in[1].function_name = <<"vmap", "_", "JIT">>
    /\ HasMarker(CompileMarkers)
    /\ ExtractedFrame.transformation_context = Some("vectorize")
\* the value is a list or tuple
IsContainer(v) == "elems" \in DOMAIN v
\* the value is a framework array
IsFrameworkArray(v) == ~IsContainer(v) /\ ~IsNone(extract_array_metadata(<<"e">>, v))

\* C26: a binding that is a list or tuple holding framework arrays puts array
\* metadata for them into its frame's context, while a list whose arrays sit
\* two levels deep puts none.
C26_ArraysInContainersOneLevelDeep ==
    Extracted =>
        \A i \in 1..Len(ExtractedLocals) :
            LET b == ExtractedLocals[i]
            IN (IsContainer(b.value) /\ ~StartsWith(b.name, <<"__">>)) =>
                   (ReportedAsArray(b.name) <=>
                        \E k \in 1..Len(b.value.elems) :
                            IsFrameworkArray(b.value.elems[k]))
\* the frame context has no arrays, no key-like values and no transformation tag
NothingToReport(fc) ==
    /\ Len(fc.arrays) = 0
    /\ Len(fc.prng_keys) = 0
    /\ IsNone(fc.transformation_context)
\* the names bound in the locals of bundle b
BoundNames(b) ==
    IF IsNone(b.local_vars) THEN {}
    ELSE {b.local_vars.items[i].name : i \in 1..Len(b.local_vars.items)}
\* the framework text of a rendered frame holds a fragment of the reference plugin
HasJaxText(framework_info) ==
    \E k \in 1..Len(framework_info) : framework_info[k].tag = "jax_frame_context"

\* C27: in the context build_exception_context returns, a context of the
\* reference plugin holds one frame context per bundle of the full chain, at
\* the bundle's index and made from that bundle;
\* frame_context_string(i) answers nothing exactly when i is outside 0..N-1 or
\* frame i has no arrays, no key-like values and no transformation tag, whatever
\* its is-tracing flag; and the rendered prompt carries no text of the plugin
\* for such a frame.
C27_FrameContextPerBundleAndRelevance ==
    /\ \A j \in 1..(IF pc = "context" THEN Len(context.framework_context) ELSE 0) :
          context.framework_context[j].tag = "JaxContext" =>
              LET ctx == context.framework_context[j]
              IN /\ Len(ctx.frame_contexts) = Len(bundle)
                 /\ IsNone(frame_context_string(ctx, 0 - 1))
                 /\ IsNone(frame_context_string(ctx, Len(bundle)))
                 /\ \A i \in 0..(Len(bundle) - 1) :
                       LET fc == ctx.frame_contexts[i + 1]
                       IN /\ fc.transformation_context =
                                 detect_transformation(bundle[i + 1].function_name)
                          /\ \A k \in 1..Len(fc.arrays) :
                                 fc.arrays[k].name \in BoundNames(bundle[i + 1])
                          /\ \A k \in 1..Len(fc.prng_keys) :
                                 fc.prng_keys[k].name \in BoundNames(bundle[i + 1])
                          /\ NothingToReport(fc) <=> ~FrameYieldsMetadata(bundle[i + 1])
                          /\ IsNone(frame_context_string(ctx, i)) <=> NothingToReport(fc)
    /\ PromptReturned =>
          LET N == Len(context.source_code_bundles)
          IN /\ HasJaxText(prompt.immediate.framework_info) =>
                    FrameYieldsMetadata(bundle[N + 1])
             /\ N >= 1 =>
                    \A d \in 0..(N - 1) :
                        HasJaxText(prompt.call_stack_section.frames[d + 1].framework_info)
                            => FrameYieldsMetadata(bundle[N - d])

\* a prompt rendered while tracing, the reference plugin registered: the
\* immediate frame has nothing to report and carries no plugin text, the outer
\* frame does
C27_Witness ==
    /\ PromptReturned
    /\ tracing
    /\ Len(bundle) = 2
    /\ \E j \in 1..Len(context.framework_context) :
          /\ context.framework_context[j].tag = "JaxContext"
          /\ context.framework_context[j].frame_contexts[2].is_tracing
          /\ NothingToReport(context.framework_context[j].frame_contexts[2])
    /\ ~HasJaxText(prompt.immediate.framework_info)
    /\ HasJaxText(prompt.call_stack_section.frames[1].framework_info)
\* -------------------------------------------------- streaming, pull by pull
\* C29: call_stream does nothing before the consumer's first request (no
\* connection, no line read), never holds more fragments than were requested,
\* and once it has produced fragment k it stays suspended: the next line is
\* read only inside request k+1, and every fragment comes from a line read
\* inside the request that delivers it.
C29_StreamIsPullBased ==
    /\ [](operation = "call_stream" =>
              /\ pulls = 0 => (requests = 0 /\ opened = 0 /\ line_no = 0)
              /\ Len(yielded) <= pulls
              /\ ipc = "suspended" => Len(yielded) = pulls)
    /\ [][(operation = "call_stream" /\ line_no' # line_no) =>
              /\ pulls' = IF ipc = "suspended" THEN pulls + 1 ELSE pulls
              /\ pulls' > Len(yielded)]_vars
    /\ [][yielded' # yielded =>
              /\ Len(yielded') = Len(yielded) + 1
              /\ line_no' = line_no + 1
              /\ Len(yielded') = pulls'
              /\ ipc' = "suspended"]_vars

\* two fragments delivered by two requests, three lines read: the line skipped
\* in between was read inside the second request
C29_Witness ==
    /\ operation = "call_stream"
    /\ ipc = "suspended"
    /\ pulls = 2
    /\ Len(yielded) = 2
    /\ line_no = 3
\* the data records among the lines the loop has taken, up to the first [DONE]
DataRecordsRead ==
    SelectSeq(BeforeDone(SubSeq(transport.lines, 1, line_no)), IsDataLine)
\* a well-formed record whose delta has no content, a null content or the
\* empty text as content
DeltaWithoutText(l) ==
    /\ IsDataLine(l)
    /\ l.rest.tag = "json"
    /\ LET delta == get_in(<<Name("choices"), Index(0), Name("delta")>>, l.rest.value)
       IN /\ delta.tag = "object"
          /\ DictGet(delta, "content", None) \in {None, JStr(<<>>)}

\* C30: every fragment call_stream has yielded is a non-empty text, and there
\* are never more fragments than data records read before [DONE]; a
\* well-formed record whose delta has no content field, a null content or an
\* empty text yields nothing (it does not count towards the fragments) and
\* does not end the sequence: after it the loop is reading on, unless the
\* lines are exhausted or the transport failed.
C30_FragmentsAreNonEmptyText ==
    operation = "call_stream" =>
        /\ \A k \in 1..Len(yielded) : yielded[k].tag = "string" /\ yielded[k].s # <<>>
        /\ IF opened = 1
           THEN /\ Len(yielded) <= Len(DataRecordsRead)
                /\ Len(yielded) <=
                       Len(SelectSeq(DataRecordsRead, LAMBDA l : ~DeltaWithoutText(l)))
                /\ (line_no > 0 /\ DeltaWithoutText(transport.lines[line_no])) =>
                       \/ ipc = "reading"
                       \/ ipc = "returned" /\ line_no = Len(transport.lines)
                       \/ TransportFailed
           ELSE yielded = <<>>
\* ------------------------------------------------------ the reporting cycle
\* an error has left core_loop
CoreRaised == core_pc = "raised"
\* context built, prompt rendered, analysis streamed to its end, and the chat,
\* if there was one, ended by the user
CycleCompleted ==
    /\ operation = "call_stream"
    /\ ipc = "returned"
    /\ chat_pc \in {"none", "terminated"}

\* C28: sys.excepthook is assigned at most once in a reporting cycle, by the
\* step that ends a completed cycle (context built, prompt rendered, analysis
\* streamed, chat ended if there was one), and it has been assigned exactly
\* when core_loop has returned; a failure of context assembly, of prompt
\* rendering, of the inference call or of the chat leaves core_loop as an
\* error, which stays one, with sys.excepthook untouched.
C28_ExcepthookDisabledOnceAfterCompletedCycle ==
    /\ [](Len(excepthook) <= 1)
    /\ [](Len(excepthook) = 1 <=> core_pc = "returned")
    /\ [](CoreRaised => excepthook = <<>>)
    /\ []((ipc = "raised" \/ chat_pc = "raised") =>
              core_pc \in {"display_stream", "repl_loop", "raised"})
    /\ [][excepthook' # excepthook =>
              (CycleCompleted /\ Len(excepthook') = 1 /\ core_pc' = "returned")]_vars
    /\ [][CoreRaised => core_pc' = "raised"]_vars

\* a cycle that streamed "Hel" and "lo", held a chat of one turn ended by the
\* user, and then disabled the default display
C28_Witness ==
    /\ core_pc = "returned"
    /\ Len(excepthook) = 1
    /\ yielded = <<JStr(<<"H", "e", "l">>), JStr(<<"l", "o">>)>>
    /\ chat_pc = "terminated"
    /\ Len(messages) = 5
    /\ messages[3] = Message("assistant", <<"H", "e", "l", "l", "o">>)
====
